---- MODULE Spec2Model ----
(***************************************************************************)
(* LAN lobby protocol of fheroes2 multiplayer: LanLobbyHost, LanLobbyClient *)
(* (src/engine/network/lan_lobby.cpp) over the Socket wrapper               *)
(* (src/engine/network/socket.cpp).                                         *)
(*                                                                          *)
(* Bytes are naturals 0..255, a std::string / std::vector<uint8_t> is a     *)
(* sequence of bytes.  A TCP connection is a pair of kernel receive         *)
(* buffers; a Socket handle is the index of its connection, 0 = no handle.  *)
(***************************************************************************)
EXTENDS Integers, Sequences, FiniteSets, TLC

\* ------------------------------------------------------------- bounds
\* TCP connections ever opened in one behaviour.
MaxConns == 2
\* Byte chunks / chat calls the environment and the user may inject.
MaxEvents == 3
\* Clock ticks (of TickMs each) in one behaviour.
MaxTicks == 1

\* -------------------------------------------------- program constants
lobbyProtocolVersion == 1
lobbyDiscoveryPort == 26367
lobbyDefaultTcpPort == 26368
\* 0x4C4F4242, 'LOBB'
lobbyMagic == 1280262722
MsgAdvertise == 1
MsgHello == 10
MsgHelloAck == 11
MsgChat == 20
MsgKick == 30
\* 1024 * 64
maxPacketLen == 65536
\* uint8_t buf[4096]
recvBufSize == 4096
advertiseIntervalMs == 1000
PrivacyOpen == 0
PrivacyInviteOnly == 1

\* ------------------------------------------------------------ strings
\* ASCII text used by the program, as byte sequences.
StrSystem == <<115, 121, 115, 116, 101, 109>>
StrHost == <<104, 111, 115, 116>>
StrPlayer == <<112, 108, 97, 121, 101, 114>>
StrLobbyStarted == <<76, 111, 98, 98, 121, 32, 115, 116, 97, 114, 116, 101, 100>>
StrJoined == <<32, 106, 111, 105, 110, 101, 100>>
StrKickedPrefix == <<75, 105, 99, 107, 101, 100, 58, 32>>
StrInvalidInvite == <<73, 110, 118, 97, 108, 105, 100, 32, 105, 110, 118, 105, 116, 101, 32, 99, 111, 100, 101>>
StrBroadcastAddr == <<50, 53, 53, 46, 50, 53, 53, 46, 50, 53, 53, 46, 50, 53, 53>>

\* --------------------------------------------------------- sequences
Take(s, n) == SubSeq(s, 1, IF n < Len(s) THEN n ELSE Len(s))
Drop(s, n) == SubSeq(s, n + 1, Len(s))

\* -------------------------------------------------------------- codec
\* RWStreamBuf: fixed-width little-endian integers.
Put8(v) == <<v % 256>>
Put16(v) == <<v % 256, (v \div 256) % 256>>
Put32(v) == <<v % 256, (v \div 256) % 256, (v \div 65536) % 256, (v \div 16777216) % 256>>
\* uint64 values of the model stay below 2^31; the high word is written as is.
Put64(v) == Put32(v) \o Put32(0)
PutString(s) == Put32(Len(s)) \o s

Le32(b) == b[1] + 256 * b[2] + 65536 * b[3] + 16777216 * b[4]

\* ROStreamBuf: a cursor [data, fail]; a short read sets fail and yields 0.
\* A read works on the cursor it is given, taken as a value (the one element
\* of {r}), not on the expression that yields it.
Reader(bytes) == [data |-> bytes, fail |-> FALSE]
Get8(r) ==
    LET Read8(c) ==
            IF c.fail \/ Len(c.data) < 1
            THEN [v |-> 0, r |-> [data |-> c.data, fail |-> TRUE]]
            ELSE [v |-> c.data[1], r |-> [data |-> Drop(c.data, 1), fail |-> FALSE]]
    IN CHOOSE y \in {Read8(c) : c \in {r}} : TRUE
Get16(r) ==
    LET Read16(c) ==
            IF c.fail \/ Len(c.data) < 2
            THEN [v |-> 0, r |-> [data |-> c.data, fail |-> TRUE]]
            ELSE [v |-> c.data[1] + 256 * c.data[2], r |-> [data |-> Drop(c.data, 2), fail |-> FALSE]]
    IN CHOOSE y \in {Read16(c) : c \in {r}} : TRUE
Get32(r) ==
    LET Read32(c) ==
            IF c.fail \/ Len(c.data) < 4
            THEN [v |-> 0, r |-> [data |-> c.data, fail |-> TRUE]]
            ELSE [v |-> Le32(c.data), r |-> [data |-> Drop(c.data, 4), fail |-> FALSE]]
    IN CHOOSE y \in {Read32(c) : c \in {r}} : TRUE
Get64(r) ==
    LET Read64(c) ==
            IF c.fail \/ Len(c.data) < 8
            THEN [v |-> 0, r |-> [data |-> c.data, fail |-> TRUE]]
            ELSE LET lo == Le32(SubSeq(c.data, 1, 4))
                     hi == Le32(SubSeq(c.data, 5, 8))
                 IN [v |-> IF hi = 0 THEN lo ELSE lo + hi * (65536 * 65536),
                     r |-> [data |-> Drop(c.data, 8), fail |-> FALSE]]
    IN CHOOSE y \in {Read64(c) : c \in {r}} : TRUE
\* operator>>( std::string & ): uint32 length, then that many bytes.
GetString(r) ==
    LET ReadBytes(n) ==
            IF n.r.fail \/ Len(n.r.data) < n.v
            THEN [v |-> <<>>, r |-> [data |-> n.r.data, fail |-> TRUE]]
            ELSE [v |-> Take(n.r.data, n.v), r |-> [data |-> Drop(n.r.data, n.v), fail |-> FALSE]]
    IN CHOOSE y \in {ReadBytes(c) : c \in {Get32(r)}} : TRUE

\* makePacket: magic, version, type, then the body.
makePacket(type, body) == Put32(lobbyMagic) \o Put32(lobbyProtocolVersion) \o Put8(type) \o body

\* parseHeader with the version test left out.
parseHeaderAnyVersion(buf) ==
    LET magic == Get32(buf)
        version == Get32(magic.r)
        type == Get8(version.r)
    IN [ok |-> ~type.r.fail /\ magic.v = lobbyMagic, type |-> type.v, s |-> type.r]

\* parseHeader: [ok, type, s] with s the cursor after the header.
parseHeader(buf) ==
    LET magic == Get32(buf)
        version == Get32(magic.r)
        type == Get8(version.r)
    IN IF type.r.fail THEN [ok |-> FALSE, type |-> 0, s |-> type.r]
       ELSE IF magic.v # lobbyMagic THEN [ok |-> FALSE, type |-> 0, s |-> type.r]
       ELSE IF version.v # lobbyProtocolVersion THEN [ok |-> FALSE, type |-> 0, s |-> type.r]
       ELSE [ok |-> TRUE, type |-> type.v, s |-> type.r]

\* Message bodies as the senders write them.
HelloBody(lobbyId, playerName, invite) == Put64(lobbyId) \o PutString(playerName) \o PutString(invite)
HelloAckBody(lobbyId, lobbyName, hostPlayerName, privacy) ==
    Put64(lobbyId) \o PutString(lobbyName) \o PutString(hostPlayerName) \o Put8(privacy)
ChatBody(ts, from, text) == Put64(ts) \o PutString(from) \o PutString(text)
KickBody(reason) == PutString(reason)
AdvertiseBody(lobbyId, tcpPort, privacy, lobbyName, hostPlayerName) ==
    Put64(lobbyId) \o Put16(tcpPort) \o Put8(privacy) \o PutString(lobbyName) \o PutString(hostPlayerName)

\* _sendPacket: the uint32 length prefix, then the packet.
Framed(packet) == Put32(Len(packet)) \o packet

\* dialog: the locals of the lobby dialog (Game::LocalLanLobby) that outlive
\* one pass of its event loop.
\* sockets: the Socket objects of socket.h with the descriptors the
\* operating system has open for them.
VARIABLES host, client, conns, pending, udpQ, now, ticks, events, last, dialog, sockets

vars == <<host, client, conns, pending, udpQ, now, ticks, events, last, dialog, sockets>>

\* ------------------------------------------------------------ network
\* Addresses of the machines on the LAN.
HostAddr == "192.168.0.1"
RawAddr == "192.168.0.2"
ClientAddr == "192.168.0.3"

\* A TCP connection: the two kernel receive buffers, whether each end still
\* holds its handle, and whether a reset from the other end is pending.
\* estab: the three-way handshake is complete (a non-blocking connect may
\* return before it is).
NewConn(serverKind, peerKind, peerAddr, estab) ==
    [toServer |-> <<>>, toPeer |-> <<>>, serverOpen |-> TRUE, peerOpen |-> TRUE,
     serverRst |-> FALSE, peerRst |-> FALSE, estab |-> estab, port |-> 0,
     serverKind |-> serverKind, peerKind |-> peerKind, peerAddr |-> peerAddr]

\* Socket::recv on the server end of connection c: [rc, data, conns].
\* rc = -1: no handle or connection reset; rc = 0: nothing to read (would
\* block, or the peer has shut down); otherwise the bytes read, at most size.
ServerRecv(cs, c, size) ==
    IF c = 0 THEN [rc |-> -1, data |-> <<>>, conns |-> cs]
    ELSE IF cs[c].toServer # <<>>
    THEN LET n == IF Len(cs[c].toServer) < size THEN Len(cs[c].toServer) ELSE size
         IN [rc |-> n, data |-> Take(cs[c].toServer, n),
             conns |-> [cs EXCEPT ![c].toServer = Drop(@, n)]]
    ELSE IF cs[c].serverRst THEN [rc |-> -1, data |-> <<>>, conns |-> cs]
    ELSE [rc |-> 0, data |-> <<>>, conns |-> cs]

PeerRecv(cs, c, size) ==
    IF c = 0 THEN [rc |-> -1, data |-> <<>>, conns |-> cs]
    ELSE IF cs[c].toPeer # <<>>
    THEN LET n == IF Len(cs[c].toPeer) < size THEN Len(cs[c].toPeer) ELSE size
         IN [rc |-> n, data |-> Take(cs[c].toPeer, n),
             conns |-> [cs EXCEPT ![c].toPeer = Drop(@, n)]]
    ELSE IF cs[c].peerRst THEN [rc |-> -1, data |-> <<>>, conns |-> cs]
    ELSE [rc |-> 0, data |-> <<>>, conns |-> cs]

\* A connection both ends have let go of.
DeadConn(cn) ==
    [cn EXCEPT !.toServer = <<>>, !.toPeer = <<>>, !.serverOpen = FALSE, !.peerOpen = FALSE,
               !.serverRst = FALSE, !.peerRst = FALSE, !.estab = FALSE, !.port = 0]

\* Socket::send from the server end: the bytes reach the peer's receive
\* buffer while the peer holds its end; the return value is ignored by callers.
\* What a foreign ("raw") end is sent is not kept: nothing of the program
\* reads it.
ServerSend(cs, c, bytes) ==
    IF c = 0 THEN cs
    ELSE IF cs[c].estab /\ cs[c].peerOpen /\ ~cs[c].serverRst /\ cs[c].peerKind # "raw"
    THEN [cs EXCEPT ![c].toPeer = @ \o bytes]
    ELSE cs

PeerSend(cs, c, bytes) ==
    IF c = 0 THEN cs
    ELSE IF cs[c].estab /\ cs[c].serverOpen /\ ~cs[c].peerRst /\ cs[c].serverKind # "raw"
    THEN [cs EXCEPT ![c].toServer = @ \o bytes]
    ELSE cs

\* Socket::close: idempotent; unread input is discarded, and closing with
\* unread input resets the connection for the other end.
ServerClose(cs, c) ==
    IF c = 0 \/ ~cs[c].serverOpen THEN cs
    ELSE IF cs[c].peerKind = "raw" \/ ~cs[c].peerOpen THEN [cs EXCEPT ![c] = DeadConn(@)]
    ELSE [cs EXCEPT ![c].serverOpen = FALSE, ![c].toServer = <<>>,
                    ![c].peerRst = @ \/ cs[c].toServer # <<>>]

PeerClose(cs, c) ==
    IF c = 0 \/ ~cs[c].peerOpen THEN cs
    ELSE IF cs[c].serverKind = "raw" \/ ~cs[c].serverOpen THEN [cs EXCEPT ![c] = DeadConn(@)]
    ELSE [cs EXCEPT ![c].peerOpen = FALSE, ![c].toPeer = <<>>,
                    ![c].serverRst = @ \/ cs[c].toPeer # <<>>]

\* ----------------------------------------------------------- messages
ChatMessage(ts, from, text) == [timestampMs |-> ts, from |-> from, text |-> text]

\* The record of the last operation: its name, the framed packets it handed
\* to Socket::send (in call order), the bytes each connection's recv gave and,
\* for a call that returns bool, whether it returned true.
NoReads == [c \in 1..Len(conns) |-> <<>>]
Op(name) == [op |-> name, sends |-> <<>>, reads |-> <<>>, arg |-> <<>>, ret |-> FALSE]

\* ---------------------------------------------------------------- host
\* struct Client
NewClient(sock, addr) ==
    [socket |-> sock, endpoint |-> addr, name |-> <<>>, joined |-> FALSE, rx |-> <<>>]

\* The host as constructed: _udp and _tcpListen are valid sockets, not bound.
HostInit ==
    [running |-> FALSE, udp |-> TRUE, tcpListen |-> TRUE, tcpPort |-> 0, lobbyId |-> 0,
     privacy |-> PrivacyOpen, inviteCode |-> <<>>, lobbyName |-> <<>>,
     hostPlayerName |-> <<>>, lastAdvertiseMs |-> 0, chat |-> <<>>, clients |-> <<>>]

\* The host's working state inside one call: w.host, w.conns and the log
\* w.sends of packets handed to send.
World(h, cs) == [host |-> h, conns |-> cs, sends |-> <<>>, reads |-> [c \in 1..Len(cs) |-> <<>>]]

\* LanLobbyHost::_sendPacket
HostSendPacket(w, sock, packet) ==
    [w EXCEPT !.conns = ServerSend(@, sock, Framed(packet)),
              !.sends = Append(@, [conn |-> sock, data |-> Framed(packet)])]

\* LanLobbyHost::_broadcastPacket
RECURSIVE BroadcastFrom(_, _, _)
BroadcastFrom(w, k, packet) ==
    IF k > Len(w.host.clients) THEN w
    ELSE LET c == w.host.clients[k]
         IN BroadcastFrom(IF c.socket # 0 /\ c.joined THEN HostSendPacket(w, c.socket, packet) ELSE w,
                          k + 1, packet)

\* _broadcastPacket that sends to every session with a valid socket, joined
\* or not.
RECURSIVE BroadcastAllFrom(_, _, _)
BroadcastAllFrom(w, k, packet) ==
    IF k > Len(w.host.clients) THEN w
    ELSE LET c == w.host.clients[k]
         IN BroadcastAllFrom(IF c.socket # 0 THEN HostSendPacket(w, c.socket, packet) ELSE w,
                             k + 1, packet)
HostBroadcastPacketAll(w, packet) == BroadcastAllFrom(w, 1, packet)

HostBroadcastPacket(w, packet) == BroadcastFrom(w, 1, packet)

\* client.socket.close()
HostCloseClient(w, i) ==
    [w EXCEPT !.conns = ServerClose(@, w.host.clients[i].socket),
              !.host.clients[i].socket = 0]

\* The Hello test with the lobby id comparison left out.
WrongLobbyNoId(h, lobbyId, fail) == fail

\* if ( s.fail() || lobbyId != _lobbyId ): the Hello is for another lobby.
WrongLobby(h, lobbyId, fail) == fail \/ lobbyId # h.lobbyId

\* The invite test that lets every code pass.
InviteMismatchNever(h, invite) == FALSE

\* The invite test that an Open host applies too.
InviteMismatchAnyPrivacy(h, invite) == invite # h.inviteCode

\* if ( _privacy == LobbyPrivacy::InviteOnly && invite != _inviteCode )
InviteMismatch(h, invite) == h.privacy = PrivacyInviteOnly /\ invite # h.inviteCode

\* The Chat test that does not look at the joined flag.
ChatDroppedNoJoin(c, fail) == fail

\* if ( s.fail() || !client.joined ): the Chat is dropped.
ChatDropped(c, fail) == fail \/ ~c.joined

\* LanLobbyHost::_pumpClient, the body of the frame loop after one packet was
\* taken off client.rx: [w, more], more = the loop goes on (continue) rather
\* than returns.
HostDispatch(w, i, packet) ==
    LET hdr == parseHeader(Reader(packet))
    IN IF ~hdr.ok THEN [w |-> w, more |-> TRUE]
       ELSE IF hdr.type = MsgHello
       THEN LET lobbyId == Get64(hdr.s)
                playerName == GetString(lobbyId.r)
                invite == GetString(playerName.r)
            IN IF WrongLobby(w.host, lobbyId.v, invite.r.fail)
               THEN [w |-> HostCloseClient(w, i), more |-> FALSE]
               ELSE IF InviteMismatch(w.host, invite.v)
               THEN [w |-> HostCloseClient(
                               HostSendPacket(w, w.host.clients[i].socket,
                                              makePacket(MsgKick, KickBody(StrInvalidInvite))), i),
                     more |-> FALSE]
               ELSE LET w1 == [w EXCEPT !.host.clients[i].joined = TRUE,
                                        !.host.clients[i].name = playerName.v]
                        w2 == HostSendPacket(w1, w1.host.clients[i].socket,
                                  makePacket(MsgHelloAck,
                                      HelloAckBody(w1.host.lobbyId, w1.host.lobbyName,
                                                   w1.host.hostPlayerName, w1.host.privacy)))
                    IN [w |-> [w2 EXCEPT !.host.chat =
                                   Append(@, ChatMessage(now, StrSystem, playerName.v \o StrJoined))],
                        more |-> TRUE]
       ELSE IF hdr.type = MsgChat
       THEN LET ts == Get64(hdr.s)
                from == GetString(ts.r)
                text == GetString(from.r)
            IN IF ChatDropped(w.host.clients[i], text.r.fail)
               THEN [w |-> w, more |-> TRUE]
               ELSE [w |-> HostBroadcastPacket(
                               [w EXCEPT !.host.chat = Append(@, ChatMessage(ts.v, from.v, text.v))],
                               makePacket(MsgChat, ChatBody(ts.v, from.v, text.v))),
                     more |-> TRUE]
       ELSE [w |-> w, more |-> TRUE]

\* The length check with its zero test left out.
BadPacketLenNoZero(packetLen) == packetLen > maxPacketLen

\* The length check of the frame loop: packetLen == 0 || packetLen > 1024 * 64.
BadPacketLen(packetLen) == packetLen = 0 \/ packetLen > maxPacketLen

\* The frame loop that handles one frame per call and leaves the rest.
HostFrameLoopOnce(w, i) ==
    LET rx == w.host.clients[i].rx
    IN IF Len(rx) < 4 THEN w
       ELSE LET packetLen == Le32(rx)
            IN IF BadPacketLen(packetLen) THEN HostCloseClient(w, i)
               ELSE IF Len(rx) < 4 + packetLen THEN w
               ELSE HostDispatch([w EXCEPT !.host.clients[i].rx = Drop(rx, 4 + packetLen)],
                                 i, SubSeq(rx, 5, 4 + packetLen)).w

\* LanLobbyHost::_pumpClient, the frame loop over client.rx.
RECURSIVE HostFrameLoop(_, _)
HostFrameLoop(w, i) ==
    LET rx == w.host.clients[i].rx
    IN IF Len(rx) < 4 THEN w
       ELSE LET packetLen == Le32(rx)
            IN IF BadPacketLen(packetLen) THEN HostCloseClient(w, i)
               ELSE IF Len(rx) < 4 + packetLen THEN w
               ELSE LET packet == SubSeq(rx, 5, 4 + packetLen)
                        d == HostDispatch([w EXCEPT !.host.clients[i].rx = Drop(rx, 4 + packetLen)],
                                          i, packet)
                    IN IF d.more THEN HostFrameLoop(d.w, i) ELSE d.w

\* _pumpClient that replaces client.rx by what it has just read.
HostPumpClientNoRetain(w, i) ==
    LET sock == w.host.clients[i].socket
        r == ServerRecv(w.conns, sock, recvBufSize)
    IN IF r.rc < 0 THEN HostCloseClient(w, i)
       ELSE IF r.rc = 0 THEN w
       ELSE HostFrameLoop([w EXCEPT !.conns = r.conns,
                                    !.reads[sock] = r.data,
                                    !.host.clients[i].rx = r.data], i)

\* LanLobbyHost::_pumpClient
HostPumpClient(w, i) ==
    LET sock == w.host.clients[i].socket
        r == ServerRecv(w.conns, sock, recvBufSize)
    IN IF r.rc < 0 THEN HostCloseClient(w, i)
       ELSE IF r.rc = 0 THEN w
       ELSE HostFrameLoop([w EXCEPT !.conns = r.conns,
                                    !.reads[sock] = r.data,
                                    !.host.clients[i].rx = @ \o r.data], i)

\* LanLobbyHost::pump, the loop over _clients.
RECURSIVE HostPumpClientsFrom(_, _)
HostPumpClientsFrom(w, i) ==
    IF i > Len(w.host.clients) THEN w
    ELSE HostPumpClientsFrom(HostPumpClient(w, i), i + 1)

\* The erase that also drops the sessions that have not joined.
RECURSIVE PruneClientsUnjoined(_)
PruneClientsUnjoined(cl) ==
    IF cl = <<>> THEN <<>>
    ELSE IF cl[1].socket = 0 \/ ~cl[1].joined THEN PruneClientsUnjoined(Tail(cl))
    ELSE <<cl[1]>> \o PruneClientsUnjoined(Tail(cl))

\* pump() without its erase.
PruneClientsNever(cl) == cl

\* LanLobbyHost::pump, the erase( remove_if( !socket.isValid() ) ).
RECURSIVE PruneClients(_)
PruneClients(cl) ==
    IF cl = <<>> THEN <<>>
    ELSE IF cl[1].socket = 0 THEN PruneClients(Tail(cl))
    ELSE <<cl[1]>> \o PruneClients(Tail(cl))

\* _acceptClients that calls accept() once.
AcceptFirst(cl, q) ==
    IF q = <<>> THEN cl
    ELSE Append(cl, NewClient(q[1], conns[q[1]].peerAddr))

\* LanLobbyHost::_acceptClients: every pending connection becomes a session.
RECURSIVE AcceptAll(_, _)
AcceptAll(cl, q) ==
    IF q = <<>> THEN cl
    ELSE AcceptAll(Append(cl, NewClient(q[1], conns[q[1]].peerAddr)), Tail(q))

\* LanLobbyHost::_advertise: whether a datagram is due, and the datagram.
\* _advertise that waits for more than the interval to have passed.
AdvertiseDueStrict(h) == now - h.lastAdvertiseMs > advertiseIntervalMs

\* _advertise that sends on every call.
AdvertiseDueAlways(h) == h.lastAdvertiseMs <= now

AdvertiseDue(h) == ~(now - h.lastAdvertiseMs < advertiseIntervalMs)
\* An Advertise that leaves the lobby id field zero.
AdvertisePacketNoId(h) ==
    makePacket(MsgAdvertise, AdvertiseBody(0, h.tcpPort, h.privacy, h.lobbyName, h.hostPlayerName))

AdvertisePacket(h) ==
    makePacket(MsgAdvertise, AdvertiseBody(h.lobbyId, h.tcpPort, h.privacy, h.lobbyName, h.hostPlayerName))

\* -------------------------------------------------------------- client
\* The client as constructed: _udp and _tcp are valid sockets, neither bound
\* nor connected. tcp is the connection _tcp is attached to, 0 for none.
ClientInit ==
    [udp |-> TRUE, bound |-> FALSE, discovering |-> FALSE, discovered |-> <<>>,
     tcpValid |-> TRUE, tcp |-> 0, connected |-> FALSE, rx |-> <<>>, chat |-> <<>>,
     playerName |-> <<>>, inviteCode |-> <<>>]

\* struct LobbyHostInfo
HostInfo(lobbyName, hostPlayerName, privacy, tcpPort, address, port, lobbyId) ==
    [lobbyName |-> lobbyName, hostPlayerName |-> hostPlayerName, privacy |-> privacy,
     tcpPort |-> tcpPort, endpoint |-> [address |-> address, port |-> port],
     lobbyId |-> lobbyId, protocolVersion |-> lobbyProtocolVersion]

CWorld(cl, cs) == [client |-> cl, conns |-> cs, sends |-> <<>>, reads |-> [c \in 1..Len(cs) |-> <<>>]]

\* LanLobbyClient::_sendPacket
ClientSendPacket(w, sock, packet) ==
    [w EXCEPT !.conns = PeerSend(@, sock, Framed(packet)),
              !.sends = Append(@, [conn |-> sock, data |-> Framed(packet)])]

\* disconnect() that leaves the receive buffer as it is.
ClientDisconnectKeepsRx(w) ==
    [w EXCEPT !.conns = PeerClose(@, w.client.tcp),
              !.client.connected = FALSE, !.client.tcpValid = FALSE, !.client.tcp = 0,
              !.client.chat = <<>>]

\* disconnect() that forgets the connection without closing its socket.
ClientDisconnectLeavesOpen(w) ==
    [w EXCEPT !.client.connected = FALSE, !.client.tcpValid = FALSE, !.client.tcp = 0,
              !.client.rx = <<>>, !.client.chat = <<>>]

\* LanLobbyClient::disconnect
ClientDisconnect(w) ==
    [w EXCEPT !.conns = PeerClose(@, w.client.tcp),
              !.client.connected = FALSE, !.client.tcpValid = FALSE, !.client.tcp = 0,
              !.client.rx = <<>>, !.client.chat = <<>>]

\* LanLobbyClient::isConnected
isConnected(cl) == cl.connected /\ cl.tcpValid

\* LanLobbyClient::_pumpTcp, the body of the frame loop after one packet was
\* taken off _rx: [w, more].
ClientDispatch(w, packet) ==
    LET hdr == parseHeader(Reader(packet))
    IN IF ~hdr.ok THEN [w |-> w, more |-> TRUE]
       ELSE IF hdr.type = MsgChat
       THEN LET ts == Get64(hdr.s)
                from == GetString(ts.r)
                text == GetString(from.r)
            IN IF ~text.r.fail
               THEN [w |-> [w EXCEPT !.client.chat = Append(@, ChatMessage(ts.v, from.v, text.v))],
                     more |-> TRUE]
               ELSE [w |-> w, more |-> TRUE]
       ELSE IF hdr.type = MsgKick
       THEN LET reason == GetString(hdr.s)
            IN [w |-> ClientDisconnect(
                          [w EXCEPT !.client.chat =
                               Append(@, ChatMessage(now, StrSystem, StrKickedPrefix \o reason.v))]),
                more |-> FALSE]
       ELSE [w |-> w, more |-> TRUE]

\* LanLobbyClient::_pumpTcp, the frame loop over _rx.
RECURSIVE ClientFrameLoop(_)
ClientFrameLoop(w) ==
    LET rx == w.client.rx
    IN IF Len(rx) < 4 THEN w
       ELSE LET packetLen == Le32(rx)
            IN IF BadPacketLen(packetLen) THEN ClientDisconnect(w)
               ELSE IF Len(rx) < 4 + packetLen THEN w
               ELSE LET packet == SubSeq(rx, 5, 4 + packetLen)
                        d == ClientDispatch([w EXCEPT !.client.rx = Drop(rx, 4 + packetLen)], packet)
                    IN IF d.more THEN ClientFrameLoop(d.w) ELSE d.w

\* LanLobbyClient::_pumpTcp
ClientPumpTcp(w) ==
    LET sock == w.client.tcp
        r == PeerRecv(w.conns, sock, recvBufSize)
    IN IF r.rc < 0 THEN ClientDisconnect(w)
       ELSE IF r.rc = 0 THEN w
       ELSE ClientFrameLoop([w EXCEPT !.conns = r.conns,
                                      !.reads[sock] = r.data,
                                      !.client.rx = @ \o r.data])

\* LanLobbyClient::_pumpUdp, one datagram [from, data] of the receive loop:
\* the discovered queue after it.
ClientDatagram(discovered, dg) ==
    LET hdr == parseHeader(Reader(Take(dg.data, recvBufSize)))
    IN IF ~hdr.ok THEN discovered
       ELSE IF hdr.type # MsgAdvertise THEN discovered
       ELSE LET lobbyId == Get64(hdr.s)
                port == Get16(lobbyId.r)
                privacy == Get8(port.r)
                lobbyName == GetString(privacy.r)
                hostPlayerName == GetString(lobbyName.r)
            IN IF hostPlayerName.r.fail THEN discovered
               ELSE Append(discovered,
                           HostInfo(lobbyName.v, hostPlayerName.v, privacy.v, port.v,
                                    dg.from, port.v, lobbyId.v))

\* LanLobbyClient::_pumpUdp: the recvFrom loop over the queued datagrams, in
\* arrival order; rc <= 0 (nothing queued, or an empty datagram) ends it.
\* [discovered, q]: the discovered queue and the datagrams left queued.
RECURSIVE ClientPumpUdp(_, _)
ClientPumpUdp(discovered, q) ==
    IF q = <<>> THEN [discovered |-> discovered, q |-> q]
    ELSE IF q[1].data = <<>> THEN [discovered |-> discovered, q |-> Tail(q)]
    ELSE ClientPumpUdp(ClientDatagram(discovered, q[1]), Tail(q))

\* -------------------------------------------------------------- inputs
NameA == <<65>>
NameB == <<66>>
NameL == <<76>>
CodeK == <<107>>
TextHi == <<104, 105>>

\* _randomU64 draws from these.
LobbyIds == {1, 2}
\* An OS-assigned port of the dynamic range.
EphemeralPort == 3 * 16384
\* std::chrono::steady_clock at the first call, and the step of the clock.
StartNow == advertiseIntervalMs
TickMs == advertiseIntervalMs \div 2

\* Arguments of LanLobbyHost::start.
StartArgs ==
    { [lobbyName |-> NameL, hostPlayerName |-> NameA, privacy |-> PrivacyOpen, inviteCode |-> <<>>],
      [lobbyName |-> NameL, hostPlayerName |-> <<>>, privacy |-> PrivacyInviteOnly, inviteCode |-> CodeK],
      [lobbyName |-> NameL, hostPlayerName |-> NameA, privacy |-> PrivacyInviteOnly, inviteCode |-> <<>>] }
\* Where start() may stop: each failing step, or none.
StartOutcomes == {"noSubsystem", "noUdp", "noTcp", "noBind", "noListen", "default", "ephemeral"}

\* -------------------------------------------------------------- dialog
\* Game::LocalLanLobby: the view mode and the merged list of discovered
\* lobbies, as declared.
DialogInit == [viewMode |-> "Join", discovered |-> <<>>]

\* hostInfoEquals
hostInfoEquals(a, b) ==
    /\ a.lobbyId = b.lobbyId
    /\ a.endpoint.address = b.endpoint.address
    /\ a.endpoint.port = b.endpoint.port

\* mergeDiscovered that appends every incoming record.
mergeDiscoveredAll(dst, incoming) == dst \o incoming

\* mergeDiscovered: dst after the loop over incoming.
RECURSIVE mergeDiscovered(_, _)
mergeDiscovered(dst, incoming) ==
    IF incoming = <<>> THEN dst
    ELSE mergeDiscovered(IF \E k \in 1..Len(dst) : hostInfoEquals(dst[k], incoming[1])
                         THEN dst ELSE Append(dst, incoming[1]),
                         Tail(incoming))

\* -------------------------------------------------------------- Socket
\* class Socket (socket.h, socket.cpp), POSIX build: NativeSocket is int,
\* invalidSocket is -1, fromNative and toNative are casts, and ::socket and
\* ::accept return the lowest descriptor the process has not open.
MaxSockets == 3
Sockets == 1..MaxSockets
Descriptors == 0..(MaxSockets + 1)

\* The storage of a Socket that is not constructed, or was destroyed.
NoSocket == [alive |-> FALSE, _handle |-> 0, _type |-> "UDP"]

\* No Socket constructed; other holds the descriptors the process has open
\* for something else than a socket (0 is the standard input, when it is open).
NoSockets(other) ==
    [objs |-> [o \in Sockets |-> NoSocket], open |-> {}, other |-> other, wild |-> FALSE]

\* Socket::isValid
isValid(s, o) == s.objs[o]._handle # 0

\* The descriptor ::socket() or ::accept() returns: the lowest one not open.
LowestFree(s) ==
    CHOOSE d \in Descriptors :
        /\ d \notin s.open \cup s.other
        /\ \A e \in 0..(d - 1) : e \in s.open \cup s.other

\* Socket::close; wild tells that ::close() was called with a descriptor
\* that was not an open socket at that time.
SocketClose(s, o) ==
    LET h == s.objs[o]._handle
    IN IF h = 0 THEN s
       ELSE [s EXCEPT !.open = @ \ {h},
                      !.wild = @ \/ h \notin s.open, !.objs[o]._handle = 0]

\* Socket::Socket() = default
SocketDefault(s, o) == [s EXCEPT !.objs[o] = [alive |-> TRUE, _handle |-> 0, _type |-> "UDP"]]

\* Socket::Socket( Type ); ok tells that ::socket() did not return invalidSocket.
SocketCreate(s, o, type, ok) ==
    IF ~ok THEN [s EXCEPT !.objs[o] = [alive |-> TRUE, _handle |-> 0, _type |-> type]]
    ELSE [s EXCEPT !.open = @ \cup {LowestFree(s)},
                   !.objs[o] = [alive |-> TRUE, _handle |-> LowestFree(s), _type |-> type]]

\* Socket::Socket( Socket && other )
SocketMove(s, o, other) ==
    [s EXCEPT !.objs[o] = [alive |-> TRUE, _handle |-> s.objs[other]._handle,
                           _type |-> s.objs[other]._type],
              !.objs[other]._handle = 0]

\* Socket::operator=( Socket && other )
SocketAssign(s, o, other) ==
    IF o = other THEN s
    ELSE LET c == SocketClose(s, o)
         IN [c EXCEPT !.objs[o]._handle = c.objs[other]._handle,
                      !.objs[o]._type = c.objs[other]._type,
                      !.objs[other]._handle = 0]

\* Socket::~Socket
SocketDestroy(s, o) == [SocketClose(s, o) EXCEPT !.objs[o] = NoSocket]

\* Socket::accept, when ::accept() returns a connection: the Socket it
\* returns, constructed as o.
SocketAccepted(s, o) ==
    [s EXCEPT !.open = @ \cup {LowestFree(s)},
              !.objs[o] = [alive |-> TRUE, _handle |-> LowestFree(s), _type |-> "TCP"]]

\* ---------------------------------------------------------------- Init
Init ==
    /\ host = HostInit
    /\ client = ClientInit
    /\ conns = <<>>
    /\ pending = <<>>
    /\ udpQ = <<>>
    /\ now = StartNow
    /\ ticks = 0
    /\ events = 0
    /\ last = Op("init")
    /\ dialog = DialogInit
    /\ sockets = NoSockets({0})

\* -------------------------------------------------------- host actions
\* _clients.clear(): every session's Socket is destroyed, hence closed.
RECURSIVE CloseSessions(_, _)
CloseSessions(cs, cl) ==
    IF cl = <<>> THEN cs ELSE CloseSessions(ServerClose(cs, cl[1].socket), Tail(cl))

\* _tcpListen.close(): connections still waiting in the accept queue are reset.
RECURSIVE ResetPending(_, _)
ResetPending(cs, q) ==
    IF q = <<>> THEN cs
    ELSE ResetPending([cs EXCEPT ![q[1]] = IF @.peerKind = "raw" \/ ~@.peerOpen THEN DeadConn(@)
                                            ELSE [@ EXCEPT !.serverOpen = FALSE, !.toServer = <<>>,
                                                           !.peerRst = TRUE]], Tail(q))

\* stop() that keeps the port and the lobby id.
StopHostKeepsId(h) ==
    [h EXCEPT !.running = FALSE, !.clients = <<>>, !.chat = <<>>, !.udp = FALSE,
              !.tcpListen = FALSE, !.lastAdvertiseMs = 0]

\* LanLobbyHost::stop, on the host record.
StopHost(h) ==
    [h EXCEPT !.running = FALSE, !.clients = <<>>, !.chat = <<>>, !.udp = FALSE,
              !.tcpListen = FALSE, !.tcpPort = 0, !.lobbyId = 0, !.lastAdvertiseMs = 0]

\* start() that raises _running as soon as both sockets exist, before the
\* bind and the listen.
StartHostRunningEarly(h, a, id, outcome) ==
    IF outcome = "noSubsystem" THEN h
    ELSE LET ok == outcome \in {"default", "ephemeral"}
         IN [h EXCEPT !.privacy = a.privacy, !.inviteCode = a.inviteCode,
                      !.lobbyName = a.lobbyName, !.hostPlayerName = a.hostPlayerName,
                      !.lobbyId = id,
                      !.udp = outcome # "noUdp",
                      !.tcpListen = outcome \notin {"noUdp", "noTcp"},
                      !.tcpPort = IF outcome \in {"noUdp", "noTcp", "noBind"} THEN 0
                                  ELSE IF outcome = "ephemeral" THEN EphemeralPort
                                  ELSE lobbyDefaultTcpPort,
                      !.running = outcome \notin {"noUdp", "noTcp"},
                      !.chat = IF ok THEN Append(@, ChatMessage(now, StrSystem, StrLobbyStarted))
                               ELSE @]

\* LanLobbyHost::start, after the stop() it begins with: the host record when
\* the call returns, for each place it may return from.
StartHost(h, a, id, outcome) ==
    IF outcome = "noSubsystem" THEN h
    ELSE LET h1 == [h EXCEPT !.privacy = a.privacy, !.inviteCode = a.inviteCode,
                             !.lobbyName = a.lobbyName, !.hostPlayerName = a.hostPlayerName,
                             !.lobbyId = id]
         IN IF outcome = "noUdp" THEN h1
            ELSE IF outcome = "noTcp" THEN [h1 EXCEPT !.udp = TRUE]
            ELSE IF outcome = "noBind" THEN [h1 EXCEPT !.udp = TRUE, !.tcpListen = TRUE]
            ELSE LET h2 == [h1 EXCEPT !.udp = TRUE, !.tcpListen = TRUE,
                                      !.tcpPort = IF outcome = "ephemeral" THEN EphemeralPort
                                                  ELSE lobbyDefaultTcpPort]
                 IN IF outcome = "noListen" THEN h2
                    ELSE [h2 EXCEPT !.lastAdvertiseMs = 0, !.running = TRUE,
                                    !.chat = Append(@, ChatMessage(now, StrSystem, StrLobbyStarted))]

\* LanLobbyHost::start returns true only from its last line.
StartReturn(outcome) == outcome \in {"default", "ephemeral"}

Start(a, id, outcome) ==
    /\ host' = StartHost(StopHost(host), a, id, outcome)
    /\ conns' = ResetPending(CloseSessions(conns, host.clients), pending)
    /\ pending' = <<>>
    /\ last' = [Op("start") EXCEPT !.arg = <<a, id, outcome>>, !.ret = StartReturn(outcome)]
    /\ UNCHANGED <<sockets, dialog, client, udpQ, now, ticks, events>>

Stop ==
    /\ host' = StopHost(host)
    /\ conns' = ResetPending(CloseSessions(conns, host.clients), pending)
    /\ pending' = <<>>
    /\ last' = Op("stop")
    /\ UNCHANGED <<sockets, dialog, client, udpQ, now, ticks, events>>

\* LanLobbyHost::pump
Pump ==
    IF ~host.running
    THEN /\ last' = Op("pump")
         /\ UNCHANGED <<sockets, dialog, host, client, conns, pending, udpQ, now, ticks, events>>
    ELSE LET due == AdvertiseDue(host)
             h1 == [host EXCEPT !.lastAdvertiseMs = IF due THEN now ELSE @,
                                !.clients = AcceptAll(@, pending)]
             w == HostPumpClientsFrom(World(h1, conns), 1)
         IN /\ host' = [w.host EXCEPT !.clients = PruneClients(@)]
            /\ conns' = w.conns
            /\ pending' = <<>>
            /\ udpQ' = IF due /\ client.udp /\ client.bound
                       THEN Append(udpQ, [from |-> HostAddr, data |-> AdvertisePacket(host)])
                       ELSE udpQ
            /\ last' = [Op("pump") EXCEPT !.sends = w.sends, !.reads = w.reads,
                                          !.arg = IF due THEN <<AdvertisePacket(host)>> ELSE <<>>]
            /\ UNCHANGED <<sockets, dialog, client, now, ticks, events>>

\* popChat that takes the newest message instead of the oldest.
PopBack(q) ==
    IF q = <<>> THEN [ret |-> <<>>, chat |-> q]
    ELSE [ret |-> <<q[Len(q)]>>, chat |-> SubSeq(q, 1, Len(q) - 1)]

\* popChat of both classes on the queue _chat: std::nullopt (<<>>) when it is
\* empty, else front() is returned and pop_front() removes it.
PopFront(q) ==
    IF q = <<>> THEN [ret |-> <<>>, chat |-> q]
    ELSE [ret |-> <<Head(q)>>, chat |-> Tail(q)]

\* LanLobbyHost::popChat
HostPopChat ==
    /\ host' = [host EXCEPT !.chat = PopFront(@).chat]
    /\ last' = [Op("hostPopChat") EXCEPT !.arg = PopFront(host.chat).ret]
    /\ UNCHANGED <<sockets, dialog, client, conns, pending, udpQ, now, ticks, events>>

\* sendChatFromHost without its test of _running.
HostSendChatAlways(w, text) ==
    LET msg == ChatMessage(now, IF w.host.hostPlayerName = <<>> THEN StrHost
                                ELSE w.host.hostPlayerName, text)
    IN HostBroadcastPacket([w EXCEPT !.host.chat = Append(@, msg)],
                           makePacket(MsgChat, ChatBody(msg.timestampMs, msg.from, msg.text)))

\* LanLobbyHost::sendChatFromHost: the working state when the call returns.
HostSendChat(w, text) ==
    IF ~w.host.running THEN w
    ELSE LET msg == ChatMessage(now, IF w.host.hostPlayerName = <<>> THEN StrHost
                                     ELSE w.host.hostPlayerName, text)
         IN HostBroadcastPacket([w EXCEPT !.host.chat = Append(@, msg)],
                                makePacket(MsgChat, ChatBody(msg.timestampMs, msg.from, msg.text)))

SendChatFromHost(text) ==
    /\ events < MaxEvents
    /\ LET w == HostSendChat(World(host, conns), text)
       IN /\ host' = w.host
          /\ conns' = w.conns
          /\ last' = [Op("sendChatFromHost") EXCEPT !.sends = w.sends, !.arg = <<text>>]
    /\ events' = events + 1
    /\ UNCHANGED <<sockets, dialog, client, pending, udpQ, now, ticks>>

\* ------------------------------------------------------ client actions
\* LanLobbyClient::startDiscovery; outcome: the UDP socket could not be
\* created, could not be bound to the discovery port, or was bound.
ClientStartDiscovery(cl, outcome) ==
    [cl EXCEPT !.discovered = <<>>,
               !.udp = outcome # "noSocket",
               !.bound = outcome = "bound",
               !.discovering = outcome # "noSocket"]

StartDiscovery(outcome) ==
    /\ client' = ClientStartDiscovery(client, outcome)
    /\ udpQ' = <<>>
    /\ last' = [Op("startDiscovery") EXCEPT !.arg = <<outcome>>]
    /\ UNCHANGED <<sockets, dialog, host, conns, pending, now, ticks, events>>

\* stopDiscovery() that clears the chat queue too.
ClientStopDiscoveryDropsChat(cl) ==
    [cl EXCEPT !.discovering = FALSE, !.udp = FALSE, !.bound = FALSE, !.discovered = <<>>,
               !.chat = <<>>]

\* LanLobbyClient::stopDiscovery
ClientStopDiscovery(cl) ==
    [cl EXCEPT !.discovering = FALSE, !.udp = FALSE, !.bound = FALSE, !.discovered = <<>>]

StopDiscovery ==
    /\ client' = ClientStopDiscovery(client)
    /\ udpQ' = <<>>
    /\ last' = Op("stopDiscovery")
    /\ UNCHANGED <<sockets, dialog, host, conns, pending, now, ticks, events>>

\* LanLobbyClient::pumpDiscovery
PumpDiscovery ==
    /\ IF ~client.discovering
       THEN UNCHANGED <<client, udpQ>>
       ELSE LET r == ClientPumpUdp(client.discovered, udpQ)
            IN /\ client' = [client EXCEPT !.discovered = r.discovered]
               /\ udpQ' = r.q
    /\ last' = [Op("pumpDiscovery") EXCEPT !.arg = udpQ]
    /\ UNCHANGED <<sockets, dialog, host, conns, pending, now, ticks, events>>

\* One pass of the dialog's event loop while no lobby is hosted and the
\* client is not connected: on the Join tab, pumpDiscovery() and the merge of
\* drainDiscovered() into the list; then the click the pass finds, if any:
\* the Host tab (disconnect, stopDiscovery, the list cleared) or the Join tab
\* (startDiscovery, with its outcome).
DialogPass(click, outcome) ==
    LET join == dialog.viewMode = "Join"
        r == IF join /\ client.discovering THEN ClientPumpUdp(client.discovered, udpQ)
             ELSE [discovered |-> client.discovered, q |-> udpQ]
        drained == IF join THEN r.discovered ELSE <<>>
        cl == IF join THEN [client EXCEPT !.discovered = <<>>] ELSE client
        list == mergeDiscovered(dialog.discovered, drained)
        w == ClientDisconnect(CWorld(cl, conns))
    IN /\ last.op # "init" /\ ~host.running /\ ~isConnected(client)
       /\ click = "host" => dialog.viewMode # "Host"
       /\ click = "join" => dialog.viewMode # "Join"
       /\ click # "join" => outcome = "bound"
       /\ client' = IF click = "host" THEN ClientStopDiscovery(w.client)
                    ELSE IF click = "join" THEN ClientStartDiscovery(cl, outcome)
                    ELSE cl
       /\ conns' = IF click = "host" THEN w.conns ELSE conns
       /\ udpQ' = IF click = "none" THEN r.q ELSE <<>>
       /\ dialog' = IF click = "host" THEN [viewMode |-> "Host", discovered |-> <<>>]
                    ELSE IF click = "join" THEN [viewMode |-> "Join", discovered |-> list]
                    ELSE [dialog EXCEPT !.discovered = list]
       /\ last' = [Op("dialogPass") EXCEPT !.arg = <<drained, click>>]
       /\ UNCHANGED <<sockets, host, pending, now, ticks, events>>

\* LanLobbyClient::drainDiscovered
DrainDiscovered ==
    /\ client' = [client EXCEPT !.discovered = <<>>]
    /\ last' = [Op("drainDiscovered") EXCEPT !.arg = client.discovered]
    /\ UNCHANGED <<sockets, dialog, host, conns, pending, udpQ, now, ticks, events>>

\* Whether something listens at the endpoint a connect goes to.
Listening(address, port) ==
    \/ address = RawAddr
    \/ address = HostAddr /\ host.running /\ host.tcpPort = port

\* LanLobbyClient::connectToHost; outcome: the subsystem is not ready
\* ("noSubsystem"), the TCP socket could not be created ("noSocket"), connect
\* failed ("refused"), connect is in progress ("progress") or completed at
\* once ("done").
ConnectToHost(info, playerName, inviteCode, outcome) ==
    LET w0 == ClientDisconnect(CWorld(client, conns))
        cl == [w0.client EXCEPT !.playerName = playerName, !.inviteCode = inviteCode]
        id == Len(conns) + 1
        server == IF info.endpoint.address = HostAddr THEN "host" ELSE "raw"
    IN /\ outcome \in {"progress", "done"} => Len(conns) < MaxConns
       /\ outcome = "done" => Listening(info.endpoint.address, info.tcpPort)
       /\ IF outcome \in {"noSubsystem", "noSocket", "refused"}
          THEN /\ client' = IF outcome = "noSubsystem" THEN w0.client ELSE cl
               /\ conns' = w0.conns
               /\ pending' = pending
               /\ last' = [Op("connectToHost") EXCEPT !.arg = <<info, playerName, inviteCode, outcome>>]
          ELSE LET w1 == [w0 EXCEPT !.conns = Append(@, [NewConn(server, "client", ClientAddr, outcome = "done")
                                                         EXCEPT !.port = info.tcpPort]),
                                    !.client = [cl EXCEPT !.tcpValid = TRUE, !.tcp = id, !.connected = TRUE]]
                   w2 == ClientSendPacket(w1, id,
                             makePacket(MsgHello, HelloBody(info.lobbyId, playerName, inviteCode)))
               IN /\ client' = w2.client
                  /\ conns' = w2.conns
                  /\ pending' = IF outcome = "done" /\ server = "host" THEN Append(pending, id) ELSE pending
                  /\ last' = [Op("connectToHost") EXCEPT !.sends = w2.sends, !.ret = TRUE,
                                  !.arg = <<info, playerName, inviteCode, outcome>>]
       /\ UNCHANGED <<sockets, dialog, host, udpQ, now, ticks, events>>

\* LanLobbyClient::disconnect
Disconnect ==
    /\ LET w == ClientDisconnect(CWorld(client, conns))
       IN client' = w.client /\ conns' = w.conns
    /\ last' = Op("disconnect")
    /\ UNCHANGED <<sockets, dialog, host, pending, udpQ, now, ticks, events>>

\* LanLobbyClient::pumpConnection
PumpConnection ==
    /\ LET w == IF ~isConnected(client) THEN CWorld(client, conns)
                ELSE ClientPumpTcp(CWorld(client, conns))
       IN /\ client' = w.client
          /\ conns' = w.conns
          /\ last' = [Op("pumpConnection") EXCEPT !.reads = w.reads]
    /\ UNCHANGED <<sockets, dialog, host, pending, udpQ, now, ticks, events>>

\* sendChat that waits for the host's echo instead of appending the message.
ClientSendChatNoAppend(w, text) ==
    IF ~isConnected(w.client) THEN w
    ELSE ClientSendPacket(w, w.client.tcp,
             makePacket(MsgChat, ChatBody(now, IF w.client.playerName = <<>> THEN StrPlayer
                                               ELSE w.client.playerName, text)))

\* LanLobbyClient::sendChat: the working state when the call returns.
ClientSendChat(w, text) ==
    IF ~isConnected(w.client) THEN w
    ELSE LET msg == ChatMessage(now, IF w.client.playerName = <<>> THEN StrPlayer
                                     ELSE w.client.playerName, text)
             w1 == ClientSendPacket(w, w.client.tcp,
                       makePacket(MsgChat, ChatBody(msg.timestampMs, msg.from, msg.text)))
         IN [w1 EXCEPT !.client.chat = Append(@, msg)]

SendChat(text) ==
    /\ events < MaxEvents
    /\ LET w == ClientSendChat(CWorld(client, conns), text)
       IN /\ client' = w.client
          /\ conns' = w.conns
          /\ last' = [Op("sendChat") EXCEPT !.sends = w.sends, !.arg = <<text>>]
    /\ events' = events + 1
    /\ UNCHANGED <<sockets, dialog, host, pending, udpQ, now, ticks>>

\* LanLobbyClient::popChat
ClientPopChat ==
    /\ client' = [client EXCEPT !.chat = PopFront(@).chat]
    /\ last' = [Op("clientPopChat") EXCEPT !.arg = PopFront(client.chat).ret]
    /\ UNCHANGED <<sockets, dialog, host, conns, pending, udpQ, now, ticks, events>>

\* --------------------------------------------------------- environment
\* Frames as a peer may write them on a TCP stream.
HelloFrame(id, name, invite) == Framed(makePacket(MsgHello, HelloBody(id, name, invite)))
ChatFrame(ts, from, text) == Framed(makePacket(MsgChat, ChatBody(ts, from, text)))
KickFrame(reason) == Framed(makePacket(MsgKick, KickBody(reason)))
HelloAckFrame(id, lobbyName, hostPlayerName, privacy) ==
    Framed(makePacket(MsgHelloAck, HelloAckBody(id, lobbyName, hostPlayerName, privacy)))
\* A well-framed packet whose header carries the given magic and version.
RawFrame(magic, version, type, body) == Framed(Put32(magic) \o Put32(version) \o Put8(type) \o body)

\* A lobby id and an invite code other than the host's.
OtherId(id) == IF id = 1 THEN 2 ELSE 1
OtherCode(code) == IF code = <<>> THEN CodeK ELSE <<>>

\* Another machine opens a TCP connection to the host's listener.
RawConnect ==
    /\ Len(conns) < MaxConns
    /\ host.running
    /\ conns' = Append(conns, [NewConn("host", "raw", RawAddr, TRUE) EXCEPT !.port = host.tcpPort])
    /\ pending' = Append(pending, Len(conns) + 1)
    /\ last' = Op("rawConnect")
    /\ UNCHANGED <<sockets, dialog, host, client, udpQ, now, ticks, events>>

\* The peer of connection c writes bytes to the host.
RawSend(c, bytes) ==
    /\ events < MaxEvents
    /\ conns[c].peerKind = "raw" /\ conns[c].peerOpen /\ conns[c].serverOpen
    /\ conns' = [conns EXCEPT ![c].toServer = @ \o bytes]
    /\ events' = events + 1
    /\ last' = [Op("rawSend") EXCEPT !.arg = <<c, bytes>>]
    /\ UNCHANGED <<sockets, dialog, host, client, pending, udpQ, now, ticks>>

\* The peer of connection c closes its end (FIN).
RawClose(c) ==
    /\ conns[c].peerKind = "raw" /\ conns[c].peerOpen
    /\ conns' = [conns EXCEPT ![c].peerOpen = FALSE]
    /\ last' = [Op("rawClose") EXCEPT !.arg = <<c>>]
    /\ UNCHANGED <<sockets, dialog, host, client, pending, udpQ, now, ticks, events>>

\* The peer of connection c aborts it (RST).
RawReset(c) ==
    /\ events < MaxEvents
    /\ conns[c].peerKind = "raw" /\ conns[c].peerOpen /\ conns[c].serverOpen
    /\ conns' = [conns EXCEPT ![c].peerOpen = FALSE, ![c].serverRst = TRUE]
    /\ events' = events + 1
    /\ last' = [Op("rawReset") EXCEPT !.arg = <<c>>]
    /\ UNCHANGED <<sockets, dialog, host, client, pending, udpQ, now, ticks>>

\* The handshake of an in-progress connect ends: the connection is
\* established if something listens at its endpoint, refused otherwise.
Establish(c) ==
    /\ ~conns[c].estab /\ conns[c].peerOpen /\ ~conns[c].peerRst
    /\ IF Listening(IF conns[c].serverKind = "host" THEN HostAddr ELSE RawAddr, conns[c].port)
       THEN /\ conns' = [conns EXCEPT ![c].estab = TRUE]
            /\ pending' = IF conns[c].serverKind = "host" THEN Append(pending, c) ELSE pending
       ELSE /\ conns' = [conns EXCEPT ![c].peerRst = TRUE, ![c].serverOpen = FALSE]
            /\ pending' = pending
    /\ last' = [Op("establish") EXCEPT !.arg = <<c>>]
    /\ UNCHANGED <<sockets, dialog, host, client, udpQ, now, ticks, events>>

\* A foreign server the client is connected to writes bytes to it.
RawServerSend(c, bytes) ==
    /\ events < MaxEvents
    /\ conns[c].serverKind = "raw" /\ conns[c].serverOpen /\ conns[c].peerOpen /\ conns[c].estab
    /\ conns' = [conns EXCEPT ![c].toPeer = @ \o bytes]
    /\ events' = events + 1
    /\ last' = [Op("rawServerSend") EXCEPT !.arg = <<c, bytes>>]
    /\ UNCHANGED <<sockets, dialog, host, client, pending, udpQ, now, ticks>>

\* The foreign server closes its end (FIN), or aborts the connection (RST).
RawServerClose(c, abort) ==
    /\ events < MaxEvents
    /\ conns[c].serverKind = "raw" /\ conns[c].serverOpen /\ conns[c].peerOpen /\ conns[c].estab
    /\ conns' = [conns EXCEPT ![c].serverOpen = FALSE, ![c].peerRst = @ \/ abort]
    /\ events' = events + 1
    /\ last' = [Op("rawServerClose") EXCEPT !.arg = <<c, abort>>]
    /\ UNCHANGED <<sockets, dialog, host, client, pending, udpQ, now, ticks>>

\* A datagram from another machine reaches the client's discovery socket.
RawDatagram(data) ==
    /\ events < MaxEvents
    /\ client.udp /\ client.bound
    /\ udpQ' = Append(udpQ, [from |-> RawAddr, data |-> data])
    /\ events' = events + 1
    /\ last' = [Op("rawDatagram") EXCEPT !.arg = <<data>>]
    /\ UNCHANGED <<sockets, dialog, host, client, conns, pending, now, ticks>>

\* The steady clock advances, at most n times in one behaviour.
TickWithin(n) ==
    /\ ticks < n
    /\ now' = now + TickMs
    /\ ticks' = ticks + 1
    /\ last' = Op("tick")
    /\ UNCHANGED <<sockets, host, client, conns, pending, udpQ, events, dialog>>

Tick == TickWithin(MaxTicks)

\* ------------------------------------------------------ specifications
Conns == 1..Len(conns)

\* Everything written on connection c so far has been read: the writers of
\* the specifications below write one chunk at a time and wait for it to be
\* taken before they write the next.
Read(c) == conns[c].toServer = <<>> /\ conns[c].toPeer = <<>>

\* What a foreign peer writes to the host: handshakes that match the lobby or
\* miss its id or its invite code, and chat, alone or right behind a
\* handshake that misses.
HelloChunks ==
    { HelloFrame(host.lobbyId, NameB, host.inviteCode),
      HelloFrame(OtherId(host.lobbyId), NameB, host.inviteCode),
      HelloFrame(host.lobbyId, NameB, OtherCode(host.inviteCode)),
      ChatFrame(7, NameB, TextHi),
      HelloFrame(OtherId(host.lobbyId), NameB, host.inviteCode) \o ChatFrame(7, NameB, TextHi),
      HelloFrame(host.lobbyId, NameB, OtherCode(host.inviteCode)) \o ChatFrame(7, NameB, TextHi) }

\* Streams that exercise the framing: a matching handshake and a chat, whole
\* and cut inside the length prefix; a length prefix of 0, of 65537 and of
\* 65536, the first two followed by a whole chat frame.
FramingChunksToHost ==
    { HelloFrame(host.lobbyId, NameB, host.inviteCode),
      ChatFrame(7, NameB, TextHi),
      Take(ChatFrame(7, NameB, TextHi), 2),
      Drop(ChatFrame(7, NameB, TextHi), 2),
      Put32(0) \o ChatFrame(7, NameB, TextHi),
      Put32(maxPacketLen + 1) \o ChatFrame(7, NameB, TextHi),
      Put32(maxPacketLen) }

FramingChunksToClient ==
    { ChatFrame(7, NameA, TextHi),
      Take(ChatFrame(7, NameA, TextHi), 2),
      Drop(ChatFrame(7, NameA, TextHi), 2),
      Put32(0) \o ChatFrame(7, NameA, TextHi),
      Put32(maxPacketLen + 1) \o ChatFrame(7, NameA, TextHi),
      Put32(maxPacketLen) }

\* The lobby of a foreign server, as a discovery entry.
RawInfo == HostInfo(NameL, NameA, PrivacyOpen, lobbyDefaultTcpPort, RawAddr, lobbyDefaultTcpPort, 1)

\* The host's public calls; the lobby is started once, from the constructed
\* host.
HostCalls ==
    \/ host = HostInit /\ \E a \in StartArgs, outcome \in {"default", "noListen"} : Start(a, 1, outcome)
    \/ Stop
    \/ Pump
    \/ HostPopChat
    \/ \E text \in {TextHi} : SendChatFromHost(text)

\* The host's calls in any order while the clock advances, with peers that
\* connect and join.
HostNext ==
    \/ HostCalls
    \/ Tick
    \/ RawConnect
    \/ \E c \in Conns : Read(c) /\ RawSend(c, HelloFrame(host.lobbyId, NameB, host.inviteCode))

HostSpec == Init /\ [][HostNext]_vars

\* A host started once, Open or invite-only, that pumps peers which connect,
\* write handshakes and chat, and abort their connections.
HelloNext ==
    \/ host = HostInit /\ \E a \in StartArgs : Start(a, 1, "default")
    \/ Pump
    \/ RawConnect
    \/ \E c \in Conns, bytes \in HelloChunks : Read(c) /\ RawSend(c, bytes)
    \/ \E c \in Conns : RawReset(c)

HelloSpec == Init /\ [][HelloNext]_vars

ConnectionCalls ==
    \/ \E name \in {NameB, <<>>}, outcome \in {"done", "progress", "refused"} :
           ConnectToHost(RawInfo, name, <<>>, outcome)
    \/ Disconnect
    \/ PumpConnection
    \/ \E text \in {TextHi} : SendChat(text)
    \/ ClientPopChat

\* The host and the client share no state: a specification that is about
\* both follows either one alone, with the other as constructed.
HostIdle == host = HostInit
ClientIdle == client = ClientInit

OpenArgs == [lobbyName |-> NameL, hostPlayerName |-> NameA, privacy |-> PrivacyOpen, inviteCode |-> <<>>]

FramingNext ==
    \/ ClientIdle /\ Start(OpenArgs, 1, "default")
    \/ ClientIdle /\ Pump
    \/ ClientIdle /\ RawConnect
    \/ ClientIdle /\ \E c \in Conns, bytes \in FramingChunksToHost : Read(c) /\ RawSend(c, bytes)
    \/ ClientIdle /\ \E c \in Conns : RawReset(c)
    \/ HostIdle /\ \E outcome \in {"done", "progress", "refused"} : ConnectToHost(RawInfo, NameB, <<>>, outcome)
    \/ HostIdle /\ Disconnect
    \/ HostIdle /\ PumpConnection
    \/ HostIdle /\ ClientPopChat
    \/ HostIdle /\ \E c \in Conns : Establish(c)
    \/ HostIdle /\ \E c \in Conns, bytes \in FramingChunksToClient : Read(c) /\ RawServerSend(c, bytes)
    \/ HostIdle /\ \E c \in Conns, abort \in BOOLEAN : RawServerClose(c, abort)

FramingSpec == Init /\ [][FramingNext]_vars

\* What a foreign host writes to the client: the answer to its Hello, chat, a
\* Kick with a reason and one without.
ClientChunks ==
    { HelloAckFrame(1, NameL, NameA, PrivacyOpen),
      ChatFrame(7, NameA, TextHi),
      KickFrame(StrInvalidInvite),
      KickFrame(<<>>) }

\* The client alone, connected to a foreign host, while the clock advances.
ClientNext ==
    \/ ConnectionCalls
    \/ Tick
    \/ \E c \in Conns : Establish(c)
    \/ \E c \in Conns, bytes \in ClientChunks : Read(c) /\ RawServerSend(c, bytes)
    \/ \E c \in Conns, abort \in BOOLEAN : RawServerClose(c, abort)

ClientSpec == Init /\ [][ClientNext]_vars

\* Packets whose header does not match: another magic, another version.
BadMagic == lobbyMagic + 1
BadVersion == lobbyProtocolVersion + 1
RawAdvertise(magic, version) ==
    Put32(magic) \o Put32(version) \o Put8(MsgAdvertise)
        \o AdvertiseBody(1, lobbyDefaultTcpPort, PrivacyOpen, NameL, NameA)

HeaderChunksToHost ==
    { HelloFrame(host.lobbyId, NameB, <<>>),
      ChatFrame(7, NameB, TextHi),
      RawFrame(BadMagic, lobbyProtocolVersion, MsgChat, ChatBody(7, NameB, TextHi)),
      RawFrame(lobbyMagic, BadVersion, MsgHello, HelloBody(host.lobbyId, NameB, <<>>)),
      RawFrame(BadMagic, lobbyProtocolVersion, MsgHello, HelloBody(host.lobbyId, NameB, <<>>))
          \o HelloFrame(host.lobbyId, NameB, <<>>),
      RawFrame(lobbyMagic, BadVersion, MsgChat, ChatBody(7, NameB, TextHi))
          \o ChatFrame(7, NameB, TextHi) }

HeaderChunksToClient ==
    { ChatFrame(7, NameA, TextHi),
      RawFrame(BadMagic, lobbyProtocolVersion, MsgChat, ChatBody(7, NameA, TextHi)),
      RawFrame(lobbyMagic, BadVersion, MsgKick, KickBody(TextHi)),
      RawFrame(lobbyMagic, BadVersion, MsgKick, KickBody(TextHi)) \o ChatFrame(7, NameA, TextHi) }

HeaderDatagrams ==
    { RawAdvertise(lobbyMagic, lobbyProtocolVersion),
      RawAdvertise(BadMagic, lobbyProtocolVersion),
      RawAdvertise(lobbyMagic, BadVersion) }

\* Peers and hosts that send packets with a wrong magic or version among
\* good ones, over TCP to the host and to the client, and over UDP.
HeaderNext ==
    \/ ClientIdle /\ Start(OpenArgs, 1, "default")
    \/ ClientIdle /\ Pump
    \/ ClientIdle /\ RawConnect
    \/ ClientIdle /\ \E c \in Conns, bytes \in HeaderChunksToHost : Read(c) /\ RawSend(c, bytes)
    \/ HostIdle /\ \E outcome \in {"done", "progress"} : ConnectToHost(RawInfo, NameB, <<>>, outcome)
    \/ HostIdle /\ PumpConnection
    \/ HostIdle /\ ClientPopChat
    \/ HostIdle /\ \E c \in Conns : Establish(c)
    \/ HostIdle /\ \E c \in Conns, bytes \in HeaderChunksToClient : Read(c) /\ RawServerSend(c, bytes)
    \/ HostIdle /\ StartDiscovery("bound")
    \/ HostIdle /\ PumpDiscovery
    \/ HostIdle /\ DrainDiscovered
    \/ HostIdle /\ \E data \in HeaderDatagrams : RawDatagram(data)
HeaderSpec == Init /\ [][HeaderNext]_vars

\* ============================================================== claims
\* The sessions a pump() works on: those of the list and those it accepts,
\* each named by its socket.
SessionSocks(h) == {h.clients[i].socket : i \in 1..Len(h.clients)}
PumpSocks == SessionSocks(host) \cup {pending[k] : k \in 1..Len(pending)}
SessionOf(h, c) == h.clients[CHOOSE i \in 1..Len(h.clients) : h.clients[i].socket = c]
RxBefore(c) == IF c \in SessionSocks(host) THEN SessionOf(host, c).rx ELSE <<>>
JoinedBefore(c) == c \in SessionSocks(host) /\ SessionOf(host, c).joined

\* A stream cut into its length-prefixed frames: the packets of the complete
\* frames up to the first length prefix that is 0 or above 65536 (end "bad")
\* or up to where the bytes run out (end "short"), and the bytes left there.
RECURSIVE CutFrames(_)
CutFrames(s) ==
    IF Len(s) < 4 THEN [packets |-> <<>>, end |-> "short", rest |-> s]
    ELSE LET n == Le32(s)
         IN IF n = 0 \/ n > 65536 THEN [packets |-> <<>>, end |-> "bad", rest |-> s]
            ELSE IF Len(s) < 4 + n THEN [packets |-> <<>>, end |-> "short", rest |-> s]
            ELSE LET t == CutFrames(Drop(s, 4 + n))
                 IN [t EXCEPT !.packets = <<SubSeq(s, 5, 4 + n)>> \o @]

\* A packet whose first nine bytes are the magic 0x4C4F4242, the version 1
\* (both little-endian) and a type; its body is what follows them.
HeaderMatches(p) == Len(p) >= 9 /\ Le32(p) = 1280262722 /\ Le32(Drop(p, 4)) = 1
IsPacket(p, type) == HeaderMatches(p) /\ p[9] = type
BodyOf(p) == Reader(Drop(p, 9))
SomePacket(ps, type) == \E k \in 1..Len(ps) : IsPacket(ps[k], type)

RECURSIVE SumOver(_, _)
SumOver(S, f) == IF S = {} THEN 0 ELSE LET x == CHOOSE y \in S : TRUE IN f[x] + SumOver(S \ {x}, f)

\* Steps that are a pump() of a running host, a pumpConnection() of a connected client.
PumpStep == host.running /\ last'.op = "pump"
PumpConnectionStep == isConnected(client) /\ last'.op = "pumpConnection"

\* The bytes session c has to work on in the pump, and their frames; the
\* same for the client in a pumpConnection.
StreamOf(c) == RxBefore(c) \o last'.reads[c]
ClientStream == client.rx \o last'.reads[client.tcp]
Frames(c) == CHOOSE f \in {CutFrames(s) : s \in {StreamOf(c)}} : TRUE
ClientFrames == CHOOSE f \in {CutFrames(s) : s \in {ClientStream}} : TRUE

\* C1 (host): in every pump(), a session whose stream reaches a length prefix
\* of 0 or above 65536 is closed and removed; a session whose stream holds
\* only frames of 1..65536 bytes (65536 included), none of them a Hello, and
\* whose recv did not fail stays open and keeps exactly the bytes of its
\* incomplete last frame; the chat queue grows by at most one message per
\* complete frame before the violating prefix, so nothing after it is
\* dispatched; and nothing is read from a closed connection in a later pump.
C1_HostFraming ==
    PumpStep =>
        /\ \A c \in PumpSocks :
              LET f == Frames(c)
              IN /\ f.end = "bad" => c \notin SessionSocks(host') /\ ~conns'[c].serverOpen
                 /\ (f.end = "short" /\ ~SomePacket(f.packets, MsgHello)
                        /\ ~(conns[c].toServer = <<>> /\ conns[c].serverRst))
                       => /\ c \in SessionSocks(host')
                          /\ conns'[c].serverOpen
                          /\ SessionOf(host', c).rx = f.rest
        /\ Len(host'.chat) - Len(host.chat)
              <= SumOver(PumpSocks, [c \in PumpSocks |-> Len(Frames(c).packets)])
        /\ \A c \in Conns : ~conns[c].serverOpen => last'.reads[c] = <<>>

\* C1 (client): in every pumpConnection(), a stream that reaches a length
\* prefix of 0 or above 65536 disconnects the client and leaves no byte of it
\* behind; a stream of frames of 1..65536 bytes, none of them a Kick, whose
\* recv did not fail leaves the client connected with exactly the bytes of
\* the incomplete last frame, and at most one chat message per complete frame.
C1_ClientFraming ==
    PumpConnectionStep =>
        LET f == ClientFrames
        IN /\ f.end = "bad" =>
                 /\ ~isConnected(client') /\ ~conns'[client.tcp].peerOpen
                 /\ client'.rx = <<>> /\ client'.chat = <<>>
           /\ (f.end = "short" /\ ~SomePacket(f.packets, MsgKick)
                  /\ ~(conns[client.tcp].toPeer = <<>> /\ conns[client.tcp].peerRst))
                 => /\ isConnected(client') /\ client'.tcp = client.tcp
                    /\ conns'[client.tcp].peerOpen
                    /\ client'.rx = f.rest
                    /\ Len(client'.chat) - Len(client.chat) <= Len(f.packets)

\* C1: a TCP stream is closed by the length check exactly when the next
\* declared frame length is 0 or above 65536, on the host and on the client,
\* and no byte after such a prefix is dispatched.
C1_LengthCheck == [][C1_HostFraming /\ C1_ClientFraming]_vars

\* C1 witness: a pump has closed a session on a zero length prefix that a
\* whole chat frame followed, and the session had joined before.
C1_Witness ==
    /\ last.op = "pump" /\ host.running
    /\ \E c \in Conns :
          /\ Len(last.reads[c]) > 4
          /\ Le32(last.reads[c]) = 0
          /\ ~conns[c].serverOpen
          /\ c \notin SessionSocks(host)
    /\ \E k \in 1..Len(host.chat) : host.chat[k].text = NameB \o StrJoined

\* The packets of a sequence whose header has the protocol's magic and version.
RECURSIVE ValidPackets(_)
ValidPackets(ps) ==
    IF ps = <<>> THEN <<>>
    ELSE (IF HeaderMatches(ps[1]) THEN <<ps[1]>> ELSE <<>>) \o ValidPackets(Tail(ps))

\* The chat message a packet carries, if it is a Chat whose body decodes.
ChatOf(p) ==
    LET ts == Get64(BodyOf(p))
        from == GetString(ts.r)
        text == GetString(from.r)
    IN IF IsPacket(p, MsgChat) /\ ~text.r.fail
       THEN <<ChatMessage(ts.v, from.v, text.v)>> ELSE <<>>
RECURSIVE ChatsOf(_)
ChatsOf(ps) == IF ps = <<>> THEN <<>> ELSE ChatOf(ps[1]) \o ChatsOf(Tail(ps))

\* A Hello the host accepts: its body decodes, its lobbyId is the host's and,
\* on an invite-only host, its invite code is the host's.
AcceptedHello(p) ==
    LET lobbyId == Get64(BodyOf(p))
        invite == GetString(GetString(lobbyId.r).r)
    IN /\ IsPacket(p, MsgHello) /\ ~invite.r.fail
       /\ lobbyId.v = host.lobbyId
       /\ host.privacy = PrivacyInviteOnly => invite.v = host.inviteCode

\* A datagram that is an Advertise whose body decodes.
AdvertiseOk(d) ==
    /\ IsPacket(d, MsgAdvertise)
    /\ ~GetString(GetString(Get8(Get16(Get64(BodyOf(d)).r).r).r).r).r.fail
RECURSIVE CountAdvertise(_)
CountAdvertise(q) ==
    IF q = <<>> \/ q[1].data = <<>> THEN 0
    ELSE (IF AdvertiseOk(q[1].data) THEN 1 ELSE 0) + CountAdvertise(Tail(q))

\* Session c is the only one with input in this pump, no recv fails.
OnlyInput(c) ==
    /\ \A d \in PumpSocks : ~(conns[d].toServer = <<>> /\ conns[d].serverRst)
    /\ \A d \in PumpSocks \ {c} : last'.reads[d] = <<>>

\* C2 (host): in a pump() where one session alone has input, made of whole
\* frames of legal length, the packets with a wrong magic or version count
\* for nothing: with no valid packet among them the chat queue, every session
\* and the connection are as before and nothing is sent; a session without a
\* valid Hello stays open with its joined flag and name; a joined session's
\* valid Chats, and only those, are appended in order; and an unjoined
\* session whose first valid packet is an acceptable Hello becomes joined.
C2_HostHeader ==
    PumpStep =>
        \A c \in PumpSocks :
            LET f == Frames(c)
                valid == ValidPackets(f.packets)
            IN (f.end = "short" /\ OnlyInput(c)) =>
                  /\ valid = <<>> =>
                        /\ host'.chat = host.chat
                        /\ last'.sends = <<>>
                        /\ \A d \in SessionSocks(host) \ {c} : SessionOf(host', d) = SessionOf(host, d)
                  /\ ~SomePacket(valid, MsgHello) =>
                        /\ c \in SessionSocks(host') /\ conns'[c].serverOpen
                        /\ SessionOf(host', c).joined = JoinedBefore(c)
                        /\ c \in SessionSocks(host) => SessionOf(host', c).name = SessionOf(host, c).name
                        /\ SessionOf(host', c).rx = f.rest
                        /\ host'.chat = host.chat \o (IF JoinedBefore(c) THEN ChatsOf(valid) ELSE <<>>)
                  /\ (~JoinedBefore(c) /\ valid # <<>> /\ AcceptedHello(valid[1])) =>
                        c \in SessionSocks(host') /\ SessionOf(host', c).joined

\* C2 (client): in a pumpConnection() whose stream is whole frames of legal
\* length with no valid Kick, the client stays connected, sends nothing, keeps
\* its discovered queue, and its chat queue grows by the valid Chats only.
C2_ClientHeader ==
    PumpConnectionStep =>
        LET f == ClientFrames
            valid == ValidPackets(f.packets)
        IN (f.end = "short" /\ ~SomePacket(valid, MsgKick)
               /\ ~(conns[client.tcp].toPeer = <<>> /\ conns[client.tcp].peerRst)) =>
              /\ isConnected(client') /\ conns'[client.tcp].peerOpen
              /\ client'.chat = client.chat \o ChatsOf(valid)
              /\ client'.discovered = client.discovered
              /\ last'.sends = <<>>

\* C2 (UDP): a pumpDiscovery() takes every queued datagram, leaves the socket
\* open and the chat queue alone, and adds one discovered record per valid
\* Advertise: a datagram with a wrong magic or version adds nothing and does
\* not keep the ones behind it from being taken.
C2_Datagram ==
    (client.discovering /\ last'.op = "pumpDiscovery") =>
        /\ Len(client'.discovered) = Len(client.discovered) + CountAdvertise(udpQ)
        /\ SubSeq(client'.discovered, 1, Len(client.discovered)) = client.discovered
        /\ (\A k \in 1..Len(udpQ) : udpQ[k].data # <<>>) => udpQ' = <<>>
        /\ client'.udp /\ client'.discovering
        /\ client'.chat = client.chat
        /\ conns' = conns

\* C2: a well-framed TCP packet or a UDP datagram whose magic or version is
\* not the protocol's is dropped without side effect, the connection stays
\* open, and what follows it is processed as if it had not been there.
C2_HeaderMismatch == [][C2_HostHeader /\ C2_ClientHeader /\ C2_Datagram]_vars

\* C2 witness: a pump has read, from a joined session, a Chat with a wrong
\* version followed by a valid Chat, and appended the valid one.
C2_Witness ==
    /\ last.op = "pump" /\ host.running
    /\ \E c \in SessionSocks(host) :
          /\ last.reads[c] = RawFrame(lobbyMagic, BadVersion, MsgChat, ChatBody(7, NameB, TextHi))
                                \o ChatFrame(7, NameB, TextHi)
          /\ SessionOf(host, c).joined
          /\ conns[c].serverOpen
    /\ host.chat # <<>>
    /\ host.chat[Len(host.chat)] = ChatMessage(7, NameB, TextHi)

\* What a Hello packet carries.
HelloOf(p) ==
    IF ~IsPacket(p, MsgHello)
    THEN [ok |-> FALSE, lobbyId |-> 0, playerName |-> <<>>, invite |-> <<>>]
    ELSE LET lobbyId == Get64(BodyOf(p))
             playerName == GetString(lobbyId.r)
             invite == GetString(playerName.r)
         IN [ok |-> ~invite.r.fail,
             lobbyId |-> lobbyId.v, playerName |-> playerName.v, invite |-> invite.v]

\* The framed packets of the given type that a step handed to send for connection c.
SentTo(sends, c, type) ==
    {k \in 1..Len(sends) : sends[k].conn = c /\ IsPacket(Drop(sends[k].data, 4), type)}

\* The first packet with a matching header that session c's stream holds in
\* this pump, <<>> if there is none.
FirstValid(c) ==
    IF last'.reads[c] = <<>> /\ Len(RxBefore(c)) < 4 THEN <<>>
    ELSE LET valid == ValidPackets(Frames(c).packets)
         IN IF valid = <<>> THEN <<>> ELSE valid[1]

\* What the first valid packet of session c carries, read as a Hello.
FirstHello(c) == CHOOSE hello \in {HelloOf(p) : p \in {FirstValid(c)}} : TRUE

\* C3 (step): a pump() in which the first packet of a session is a Hello for
\* another lobby id closes the session and removes it, sends it neither a
\* Kick nor a HelloAck and, when no other session has input, leaves the chat
\* queue as it was.
C3_Step ==
    PumpStep =>
        \A c \in PumpSocks :
            \A hello \in {FirstHello(c)} :
               (hello.ok /\ hello.lobbyId # host.lobbyId) =>
                  /\ c \notin SessionSocks(host')
                  /\ \A k \in 1..Len(host'.clients) : host'.clients[k].socket # 0
                  /\ ~conns'[c].serverOpen
                  /\ SentTo(last'.sends, c, MsgKick) = {}
                  /\ SentTo(last'.sends, c, MsgHelloAck) = {}
                  /\ ~JoinedBefore(c) => \A k \in 1..Len(last'.sends) : last'.sends[k].conn # c
                  /\ OnlyInput(c) => host'.chat = host.chat

\* C3: a Hello whose lobbyId is not the host's closes the session silently:
\* no Kick, no HelloAck, not joined, no "<name> joined" message, and the
\* session is off the list when pump() returns.
C3_WrongLobby == [][C3_Step]_vars

\* C3 witness: a pump has read a Hello for another lobby from a session and
\* closed it, on a host that still runs.
C3_Witness ==
    /\ last.op = "pump" /\ host.running
    /\ \E c \in Conns :
          /\ last.reads[c] = HelloFrame(OtherId(host.lobbyId), NameB, host.inviteCode)
          /\ ~conns[c].serverOpen
          /\ c \notin SessionSocks(host)

\* C4 (step): on an invite-only host, a pump() in which the first packet of a
\* session is a Hello with the host's lobby id and another invite code (the
\* empty one included) hands exactly one Kick to send for that session, well
\* framed and with a non-empty reason, closes and removes the session, sends
\* it no HelloAck and, when no other session has input, appends nothing to
\* the chat queue.
C4_Step ==
    PumpStep =>
        \A c \in PumpSocks :
            \A hello \in {FirstHello(c)} :
               (/\ host.privacy = PrivacyInviteOnly
                /\ hello.ok /\ hello.lobbyId = host.lobbyId
                /\ hello.invite # host.inviteCode) =>
                  /\ Cardinality(SentTo(last'.sends, c, MsgKick)) = 1
                  /\ \A k \in SentTo(last'.sends, c, MsgKick) :
                        LET data == last'.sends[k].data
                            reason == GetString(BodyOf(Drop(data, 4)))
                        IN /\ Le32(data) = Len(data) - 4
                           /\ ~reason.r.fail /\ reason.v # <<>>
                  /\ SentTo(last'.sends, c, MsgHelloAck) = {}
                  /\ c \notin SessionSocks(host')
                  /\ \A k \in 1..Len(host'.clients) : host'.clients[k].socket # 0
                  /\ ~conns'[c].serverOpen
                  /\ OnlyInput(c) => host'.chat = host.chat

C6_Step ==
    PumpStep =>
        \A c \in PumpSocks :
            LET f == Frames(c)
                valid == ValidPackets(f.packets)
                hello == FirstHello(c)
            IN (/\ OnlyInput(c) /\ f.end = "short" /\ Len(valid) = 1
                /\ hello.ok /\ hello.lobbyId = host.lobbyId
                /\ host.privacy = PrivacyInviteOnly => hello.invite = host.inviteCode) =>
                  /\ c \in SessionSocks(host') /\ conns'[c].serverOpen
                  /\ SessionOf(host', c).joined
                  /\ SessionOf(host', c).name = hello.playerName
                  /\ last'.sends =
                        <<[conn |-> c,
                           data |-> Put32(Len(makePacket(MsgHelloAck, <<>>)) + Len(HelloAckBody(host.lobbyId, host.lobbyName, host.hostPlayerName, host.privacy)))
                                    \o makePacket(MsgHelloAck, <<>>)
                                    \o Put64(host.lobbyId) \o PutString(host.lobbyName)
                                    \o PutString(host.hostPlayerName) \o Put8(host.privacy)]>>
                  /\ host'.chat = Append(host.chat,
                                         ChatMessage(now, StrSystem, hello.playerName \o StrJoined))
                  /\ \A d \in SessionSocks(host) \ {c} : SessionOf(host', d) = SessionOf(host, d)

\* C6: an acceptable Hello marks the session joined, sets its name, sends one
\* HelloAck to that session only and appends one "<name> joined" system
\* message at the tail of the chat queue, in the same pump(); an Open host
\* does not examine the invite code.
C6_Join == [][C6_Step]_vars

\* C6 witness: a pump of an Open host has joined a session whose Hello
\* carried an invite code the host does not have.
C6_Witness ==
    /\ last.op = "pump" /\ host.running /\ host.privacy = PrivacyOpen
    /\ \E c \in SessionSocks(host) :
          /\ last.reads[c] = HelloFrame(host.lobbyId, NameB, OtherCode(host.inviteCode))
          /\ SessionOf(host, c).joined
          /\ SessionOf(host, c).name = NameB
          /\ Len(last.sends) = 1
    /\ host.chat # <<>>
    /\ host.chat[Len(host.chat)].text = NameB \o StrJoined

\* C7 (step): a pump() in which a session that is not joined has whole frames
\* with no Hello among them, at least one a Chat, leaves that session open
\* and not joined; when no other session has input the chat queue is as
\* before and nothing is handed to send.
C7_Step ==
    PumpStep =>
        \A c \in PumpSocks :
            LET f == Frames(c)
                valid == ValidPackets(f.packets)
            IN (/\ ~JoinedBefore(c) /\ f.end = "short"
                /\ ~(conns[c].toServer = <<>> /\ conns[c].serverRst)
                /\ SomePacket(valid, MsgChat) /\ ~SomePacket(valid, MsgHello)) =>
                  /\ c \in SessionSocks(host') /\ conns'[c].serverOpen
                  /\ ~SessionOf(host', c).joined
                  /\ \A k \in 1..Len(last'.sends) :
                        last'.sends[k].conn # c
                  /\ OnlyInput(c) => host'.chat = host.chat /\ last'.sends = <<>>

\* C7: a Chat from a session that is not joined is ignored: the chat queue is
\* unchanged, nothing is relayed, the session stays open and not joined.
C7_UnjoinedChat == [][C7_Step]_vars

\* C7 witness: a pump has read a Chat from a session that was not joined,
\* beside a joined session that could have been sent the relay.
C7_Witness ==
    /\ last.op = "pump" /\ host.running
    /\ \E c \in SessionSocks(host), d \in SessionSocks(host) :
          /\ last.reads[c] = ChatFrame(7, NameB, TextHi)
          /\ ~SessionOf(host, c).joined
          /\ SessionOf(host, d).joined
          /\ conns[d].serverOpen
    /\ last.sends = <<>>

\* The joined sessions of the host, by socket.
JoinedSocks(h) == {h.clients[i].socket : i \in {j \in 1..Len(h.clients) : h.clients[j].joined}}

\* The sends are one copy of the framed packet for each connection of S.
SentOnceToEach(sends, S, data) ==
    /\ Len(sends) = Cardinality(S)
    /\ {sends[k].conn : k \in 1..Len(sends)} = S
    /\ \A k \in 1..Len(sends) : sends[k].data = data

\* C8 (step): a pump() in which a joined session alone has input, and that
\* input holds one valid packet, a Chat (ts, from, text), appends that
\* message once to the chat queue and hands a Chat frame with the same
\* fields to send once for each joined session other than the one it came
\* from, and for no other session.
C8_Step ==
    PumpStep =>
        \A c \in PumpSocks :
            LET f == Frames(c)
                valid == ValidPackets(f.packets)
            IN (/\ JoinedBefore(c) /\ OnlyInput(c) /\ f.end = "short"
                /\ Len(valid) = 1 /\ ChatOf(valid[1]) # <<>>) =>
                  LET msg == ChatOf(valid[1])[1]
                  IN /\ host'.chat = Append(host.chat, msg)
                     /\ SentOnceToEach(last'.sends, JoinedSocks(host) \ {c},
                                       ChatFrame(msg.timestampMs, msg.from, msg.text))

\* C8: a Chat from a joined session is appended once to the host's chat queue
\* and relayed with the same (ts, from, text) to exactly the joined sessions
\* other than the one it came from.
C8_RelayToOthers == [][C8_Step]_vars

\* The message sendChatFromHost(text) makes.
HostMessage(text) ==
    ChatMessage(now, IF host.hostPlayerName = <<>> THEN StrHost ELSE host.hostPlayerName, text)

\* C9 (as stated): every sendChatFromHost(text), on a running and on a
\* stopped host, appends (now, hostPlayerName or "host", text) to the chat
\* queue and hands the Chat to send for every joined session.
C9_Always ==
    [][last'.op = "sendChatFromHost" =>
          LET msg == HostMessage(last'.arg[1])
          IN /\ host'.chat = Append(host.chat, msg)
             /\ SentOnceToEach(last'.sends, JoinedSocks(host),
                               ChatFrame(msg.timestampMs, msg.from, msg.text))
             /\ host'.clients = host.clients]_vars

\* C9 (step): sendChatFromHost(text) on a running host appends
\* (now, hostPlayerName or "host", text) to the tail of the chat queue, hands
\* one Chat frame with these fields to send for each joined session and for
\* no other, and leaves every session as it was; on a host that is not
\* running it changes nothing and sends nothing.
C9_Step ==
    last'.op = "sendChatFromHost" =>
        LET msg == HostMessage(last'.arg[1])
        IN IF host.running
           THEN /\ host'.chat = Append(host.chat, msg)
                /\ SentOnceToEach(last'.sends, JoinedSocks(host),
                                  ChatFrame(msg.timestampMs, msg.from, msg.text))
                /\ host' = [host EXCEPT !.chat = host'.chat]
           ELSE /\ host' = host
                /\ conns' = conns
                /\ last'.sends = <<>>

\* C9: sendChatFromHost(text) appends the host's message and sends it to
\* every joined session when the host is running, never changing a joined
\* flag; on a stopped host it does nothing.
C9_HostChat == [][C9_Step]_vars

\* C9 witness: sendChatFromHost on a running host with a joined and an
\* unjoined session has sent the Chat to the joined one alone.
C9_Witness ==
    /\ last.op = "sendChatFromHost" /\ host.running
    /\ Len(host.clients) = 2
    /\ Cardinality(JoinedSocks(host)) = 1
    /\ Len(last.sends) = 1
    /\ last.sends[1].conn \in JoinedSocks(host)
    /\ host.chat # <<>>
    /\ host.chat[Len(host.chat)].text = TextHi

\* C5 (step): a pumpConnection() whose first valid packet is a Kick leaves
\* the client disconnected with the system message "Kicked: <reason>" in its
\* chat queue, where the next popChat() calls find it.
C5_Step ==
    PumpConnectionStep =>
        LET valid == ValidPackets(ClientFrames.packets)
        IN (valid # <<>> /\ IsPacket(valid[1], MsgKick)) =>
              /\ ~isConnected(client')
              /\ \E k \in 1..Len(client'.chat) :
                    client'.chat[k] = ChatMessage(now, StrSystem,
                                          StrKickedPrefix \o GetString(BodyOf(valid[1])).v)

\* C5: when pumpConnection() processes a Kick the client becomes
\* disconnected and a system message with the Kick's reason is in its chat
\* queue for a later popChat().
C5_KickMessage == [][C5_Step]_vars

\* The message sendChat(text) makes.
ClientMessage(text) ==
    ChatMessage(now, IF client.playerName = <<>> THEN StrPlayer ELSE client.playerName, text)

\* C10 (step): sendChat(text) on a client that is not connected changes
\* nothing and sends nothing; on a connected client it hands exactly one
\* framed Chat (now, playerName or "player", text) to send on its connection
\* and appends that message to the tail of its chat queue, reading nothing.
C10_Step ==
    last'.op = "sendChat" =>
        LET msg == ClientMessage(last'.arg[1])
        IN IF ~isConnected(client)
           THEN client' = client /\ conns' = conns /\ last'.sends = <<>>
           ELSE /\ last'.sends = <<[conn |-> client.tcp,
                                    data |-> ChatFrame(msg.timestampMs, msg.from, msg.text)]>>
                /\ client' = [client EXCEPT !.chat = Append(client.chat, msg)]
                /\ \A c \in Conns : conns'[c].toPeer = conns[c].toPeer

\* C10: sendChat(text) is a no-op on a client that is not connected; on a
\* connected one it sends one framed Chat and appends the same message to
\* the client's own chat queue in the same call.
C10_SendChat == [][C10_Step]_vars

\* C10 witness: a connected client with no player name has sent a chat and
\* holds it at the tail of its queue, with the host's answer still unread.
C10_Witness ==
    /\ last.op = "sendChat" /\ isConnected(client)
    /\ client.playerName = <<>>
    /\ Len(last.sends) = 1
    /\ client.chat # <<>>
    /\ client.chat[Len(client.chat)] = ChatMessage(now, StrPlayer, TextHi)
    /\ conns[client.tcp].toPeer # <<>>

\* ------------------------------------------------- the host's life cycle
\* start() from any state of the host, with every place it may fail at and
\* every lobby id it may draw, stop(), and the calls of a running lobby with
\* peers that connect and join.
LifeArgs ==
    { [lobbyName |-> NameL, hostPlayerName |-> NameA, privacy |-> PrivacyOpen, inviteCode |-> <<>>],
      [lobbyName |-> NameA, hostPlayerName |-> <<>>, privacy |-> PrivacyInviteOnly, inviteCode |-> CodeK] }

LifeNext ==
    \/ \E a \in LifeArgs, id \in LobbyIds, outcome \in StartOutcomes : Start(a, id, outcome)
    \/ Stop
    \/ Pump
    \/ HostPopChat
    \/ \E text \in {TextHi} : SendChatFromHost(text)
    \/ RawConnect
    \/ \E c \in Conns : Read(c) /\ RawSend(c, HelloFrame(host.lobbyId, NameB, host.inviteCode))

LifeSpec == Init /\ [][LifeNext]_vars

\* The places start() returns false from.
StartFailures == {"noSubsystem", "noUdp", "noTcp", "noBind", "noListen"}
StartStep == last'.op = "start"
\* A call that changed nothing the host owns or can reach, and sent nothing.
HostUntouched ==
    /\ host' = host /\ conns' = conns /\ pending' = pending /\ udpQ' = udpQ
    /\ last'.sends = <<>> /\ last'.arg \in {<<>>, <<TextHi>>}

\* C11: a start() that fails at any socket-setup step returns false and
\* leaves isRunning() false, whatever the host was before; and on a host that
\* is not running pump() and sendChatFromHost() change nothing and send
\* nothing.
C11_Step ==
    /\ StartStep /\ last'.arg[3] \in StartFailures => ~last'.ret /\ ~host'.running
    /\ ~host.running /\ last'.op \in {"pump", "sendChatFromHost"} => HostUntouched
C11_FailedStart == [][C11_Step]_vars
\* start() has just failed at listen() on a host that had been running: a
\* peer had connected to it.
C11_Witness ==
    /\ last.op = "start" /\ last.arg[3] = "noListen"
    /\ ~host.running
    /\ Len(conns) > 0
\* C12: a start() that returns true leaves the host running with no session
\* and a chat queue of exactly the "Lobby started" system message, tcpPort()
\* the default port when that bind succeeded and the listener's OS-assigned
\* port otherwise, whatever the host held before; and a pump() of a host that
\* has not advertised since its start() sends one Advertise.
C12_Step ==
    /\ StartStep /\ last'.ret =>
           /\ host'.running
           /\ host'.clients = <<>>
           /\ host'.chat = <<ChatMessage(now, StrSystem, StrLobbyStarted)>>
           /\ host'.tcpPort = IF last'.arg[3] = "default" THEN 26368 ELSE EphemeralPort
           /\ host'.tcpPort # 0
    /\ host.running /\ host.lastAdvertiseMs = 0 /\ last'.op = "pump" =>
           Len(last'.arg) = 1 /\ AdvertiseOk(last'.arg[1])
C12_Started == [][C12_Step]_vars
\* start() has just succeeded on the OS-assigned port, on a host that had
\* been running (a peer had connected to it).
C12_Witness ==
    /\ last.op = "start" /\ last.ret /\ last.arg[3] = "ephemeral"
    /\ host.running /\ Len(host.chat) = 1
    /\ Len(conns) > 0
\* The first pump() after a start() has just advertised.
C12_WitnessPump ==
    /\ last.op = "pump" /\ Len(last.arg) = 1
    /\ host.running /\ host.lastAdvertiseMs = now
\* The lobby id a packet's body begins with.
LobbyIdOf(p) == Get64(BodyOf(p)).v
\* The packets of the given type among the frames a call handed to send.
SentPackets(sends, type) ==
    { Drop(sends[k].data, 4) : k \in {j \in 1..Len(sends) : IsPacket(Drop(sends[j].data, 4), type)} }

\* C13: a successful start() makes lobbyId() the id it drew; pump(), popChat()
\* and sendChatFromHost() leave lobbyId() as it is; and every Advertise and
\* every HelloAck a pump() of the running host sends carries lobbyId().
C13_Step ==
    /\ StartStep /\ last'.ret => host'.lobbyId = last'.arg[2]
    /\ last'.op \in {"pump", "hostPopChat", "sendChatFromHost"} => host'.lobbyId = host.lobbyId
    /\ PumpStep =>
           /\ \A k \in 1..Len(last'.arg) :
                  IsPacket(last'.arg[k], MsgAdvertise) /\ LobbyIdOf(last'.arg[k]) = host.lobbyId
           /\ \A p \in SentPackets(last'.sends, MsgHelloAck) : LobbyIdOf(p) = host.lobbyId
C13_LobbyIdFixed == [][C13_Step]_vars
\* A pump() of a lobby started with the second id has just sent an Advertise
\* and a HelloAck.
C13_Witness ==
    /\ last.op = "pump" /\ host.running /\ host.lobbyId = 2
    /\ Len(last.arg) = 1
    /\ SentPackets(last.sends, MsgHelloAck) # {}
\* C14: after stop(), from any state of the host: it is not running, its UDP
\* socket and its listener are closed, it has no session and the server end
\* of every connection it held is closed, its chat queue is empty, tcpPort()
\* and lobbyId() are 0; privacy, invite code, lobby name and host player
\* name are as before.
C14_Step ==
    last'.op = "stop" =>
        /\ ~host'.running /\ ~host'.udp /\ ~host'.tcpListen
        /\ host'.clients = <<>>
        /\ \A c \in SessionSocks(host) : ~conns'[c].serverOpen
        /\ host'.chat = <<>>
        /\ host'.tcpPort = 0 /\ host'.lobbyId = 0
        /\ host'.privacy = host.privacy /\ host'.inviteCode = host.inviteCode
        /\ host'.lobbyName = host.lobbyName /\ host'.hostPlayerName = host.hostPlayerName
C14_Stop == [][C14_Step]_vars
\* stop() has just ended an invite-only lobby a peer had connected to.
C14_Witness ==
    /\ last.op = "stop"
    /\ host.privacy = PrivacyInviteOnly /\ host.inviteCode = CodeK
    /\ Len(conns) > 0
\* What the host and the client hold besides their socket handles.
HostData(h) ==
    <<h.running, h.lobbyId, h.tcpPort, h.privacy, h.inviteCode, h.lobbyName, h.hostPlayerName,
      h.chat, h.clients>>
ClientData(cl) ==
    <<isConnected(cl), cl.discovering, cl.discovered, cl.chat, cl.rx, cl.playerName, cl.inviteCode>>

\* C15 (host): stop() on a host that is not running leaves it not running and
\* changes nothing else it holds.
C15_StopStep == ~host.running /\ last'.op = "stop" => HostData(host') = HostData(host)
\* C15 (client): disconnect() on a client that is not connected leaves it not
\* connected and changes neither its discovery flag, discovered queue, chat
\* queue, receive buffer, player name nor invite code.
C15_DisconnectStep ==
    ~isConnected(client) /\ last'.op = "disconnect" => ClientData(client') = ClientData(client)
C15_Disconnect == [][C15_DisconnectStep]_vars
\* C15: stop() and disconnect() are idempotent in every state where
\* isRunning(), respectively isConnected(), is false.
C15_Idempotent == [][C15_StopStep /\ C15_DisconnectStep]_vars
\* --------------------------------------------- the client's connection
\* What a foreign host writes to a client it is about to lose: chat, a Kick,
\* a zero length prefix, and chat followed by a length prefix above the
\* limit and the start of a frame.
DropChunks ==
    { ChatFrame(7, NameA, TextHi),
      KickFrame(StrInvalidInvite),
      Put32(0),
      ChatFrame(7, NameA, TextHi) \o Put32(maxPacketLen + 1) \o Put32(lobbyMagic) }

ConnectOutcomes == {"noSubsystem", "noSocket", "refused", "progress", "done"}

\* The client connects to a foreign host, again and again, chats, and is
\* disconnected by its user, by a reset, by a bad frame length or by a Kick.
DropNext ==
    \/ \E outcome \in ConnectOutcomes : ConnectToHost(RawInfo, NameB, CodeK, outcome)
    \/ Disconnect
    \/ PumpConnection
    \/ \E text \in {TextHi} : SendChat(text)
    \/ \E c \in Conns : Establish(c)
    \/ \E c \in Conns, bytes \in DropChunks : Read(c) /\ RawServerSend(c, bytes)
    \/ \E c \in Conns, abort \in BOOLEAN : RawServerClose(c, abort)

DropSpec == Init /\ [][DropNext]_vars

\* The client as disconnect() leaves it, the connection it was on included.
Disconnected ==
    /\ ~isConnected(client') /\ ~client'.tcpValid
    /\ client.tcp # 0 => ~conns'[client.tcp].peerOpen
    /\ client'.rx = <<>> /\ client'.chat = <<>>

\* C16: disconnect() by the user, and the disconnect a connected client's
\* pumpConnection() forces on a receive error, on a length prefix of 0 or
\* above 65536 and on a Kick, leave the TCP socket closed, isConnected()
\* false, the receive buffer and the chat queue empty; a pumpConnection()
\* that ends disconnected in any way leaves the same; and on a client that
\* is not connected pumpConnection() and sendChat() change nothing, read
\* nothing and send nothing.
C16_Step ==
    /\ last'.op = "disconnect" => Disconnected
    /\ PumpConnectionStep =>
           LET f == ClientFrames
               valid == ValidPackets(f.packets)
           IN /\ ~isConnected(client') => Disconnected
              /\ conns[client.tcp].toPeer = <<>> /\ conns[client.tcp].peerRst => Disconnected
              /\ f.end = "bad" => Disconnected
              /\ SomePacket(valid, MsgKick) => Disconnected
    /\ ~isConnected(client) /\ last'.op \in {"pumpConnection", "sendChat"} =>
           /\ client' = client /\ conns' = conns
           /\ last'.sends = <<>>
           /\ \A c \in DOMAIN last'.reads : last'.reads[c] = <<>>
C16_Disconnected == [][C16_Step]_vars
\* pumpConnection() has just read chat followed by a length prefix above the
\* limit, and the client is disconnected with nothing queued.
C16_Witness ==
    /\ last.op = "pumpConnection"
    /\ \E c \in Conns : /\ Len(last.reads[c]) > Len(ChatFrame(7, NameA, TextHi))
                         /\ ~conns[c].peerOpen
    /\ ~isConnected(client) /\ client.chat = <<>> /\ client.rx = <<>>
\* ------------------------------------------------------------ discovery
\* Datagrams that reach the discovery port: Advertises of two lobbies, a
\* later Advertise of the first lobby with other names and privacy, an
\* Advertise cut short, a packet of another type, a packet with a wrong
\* magic, and a datagram of no bytes.
AdvertiseOne == makePacket(MsgAdvertise, AdvertiseBody(1, lobbyDefaultTcpPort, PrivacyOpen, NameL, NameA))
AdvertiseOneLater ==
    makePacket(MsgAdvertise, AdvertiseBody(1, lobbyDefaultTcpPort, PrivacyInviteOnly, NameA, NameB))
AdvertiseTwo == makePacket(MsgAdvertise, AdvertiseBody(2, EphemeralPort, PrivacyOpen, NameL, NameA))
DiscoveryDatagrams ==
    { AdvertiseOne, AdvertiseOneLater, AdvertiseTwo,
      Take(AdvertiseOne, Len(AdvertiseOne) - 1),
      makePacket(MsgChat, ChatBody(7, NameA, TextHi)),
      RawAdvertise(BadMagic, lobbyProtocolVersion),
      <<>> }

\* The client's discovery calls in any order, with datagrams arriving.
DiscoveryNext ==
    \/ \E outcome \in {"noSocket", "unbound", "bound"} : StartDiscovery(outcome)
    \/ StopDiscovery
    \/ PumpDiscovery
    \/ DrainDiscovered
    \/ \E data \in DiscoveryDatagrams : RawDatagram(data)

DiscoverySpec == Init /\ [][DiscoveryNext]_vars

\* The LobbyHostInfo an Advertise datagram stands for.
InfoOf(dg) ==
    LET lobbyId == Get64(BodyOf(dg.data))
        port == Get16(lobbyId.r)
        privacy == Get8(port.r)
        lobbyName == GetString(privacy.r)
        hostPlayerName == GetString(lobbyName.r)
    IN [lobbyId |-> lobbyId.v, tcpPort |-> port.v, privacy |-> privacy.v,
        lobbyName |-> lobbyName.v, hostPlayerName |-> hostPlayerName.v,
        endpoint |-> [address |-> dg.from, port |-> port.v], protocolVersion |-> 1]
\* One LobbyHostInfo per datagram that is a whole Advertise, in arrival order.
RECURSIVE InfosOf(_)
InfosOf(q) ==
    IF q = <<>> THEN <<>>
    ELSE (IF AdvertiseOk(q[1].data) THEN <<InfoOf(q[1])>> ELSE <<>>) \o InfosOf(Tail(q))

\* C19 (step): a pumpDiscovery() of a discovering client leaves no datagram
\* pending and appends InfosOf of the pending datagrams to the discovered
\* queue; one of a client that is not discovering changes nothing.
C19_Step ==
    last'.op = "pumpDiscovery" =>
        IF client.discovering
        THEN /\ udpQ' = <<>>
             /\ client'.discovered = client.discovered \o InfosOf(udpQ)
             /\ client' = [client EXCEPT !.discovered = client'.discovered]
        ELSE client' = client /\ udpQ' = udpQ
\* C19: one pumpDiscovery() consumes every pending datagram and queues one
\* LobbyHostInfo per whole Advertise, in arrival order, with the sender's
\* address and the advertised port, id, privacy and names; other datagrams
\* add nothing; when not discovering it changes nothing.
C19_PumpDiscovery == [][C19_Step]_vars
\* The same, for the pumps that meet no datagram of no bytes.
C19_NoEmptyDatagram ==
    [][(\A k \in 1..Len(udpQ) : udpQ[k].data # <<>>) => C19_Step]_vars
\* --------------------------------------------------------------- dialog
DialogDatagrams == {AdvertiseOne, AdvertiseOneLater, AdvertiseTwo, <<>>}

\* The lobby dialog from its opening: startDiscovery(), then passes of its
\* event loop and tab clicks, while hosts on the LAN advertise.
DialogNext ==
    \/ last.op = "init" /\ \E outcome \in {"noSocket", "unbound", "bound"} : StartDiscovery(outcome)
    \/ \E click \in {"none", "host", "join"}, outcome \in {"unbound", "bound"} : DialogPass(click, outcome)
    \/ \E data \in DialogDatagrams : RawDatagram(data)

DialogSpec == Init /\ [][DialogNext]_vars
\* The loop `while ( le.HandleEvents() )` keeps making passes.
DialogLiveSpec ==
    DialogSpec /\ WF_vars(\E click \in {"none", "host", "join"}, outcome \in {"unbound", "bound"} :
                               DialogPass(click, outcome))

\* The key of a LobbyHostInfo, and the keys the advertising hosts have.
KeyOf(info) == <<info.lobbyId, info.endpoint.address, info.endpoint.port>>
Keys == {<<1, RawAddr, lobbyDefaultTcpPort>>, <<2, RawAddr, EphemeralPort>>}
WithKey(list, key) == {k \in 1..Len(list) : KeyOf(list[k]) = key}
\* A whole Advertise with the given key waits in the discovery socket of the
\* discovering client, the dialog on its Join tab.
Received(key) ==
    /\ dialog.viewMode = "Join" /\ client.discovering
    /\ \E k \in 1..Len(udpQ) : AdvertiseOk(udpQ[k].data) /\ KeyOf(InfoOf(udpQ[k])) = key
Listed(key) == Cardinality(WithKey(dialog.discovered, key)) = 1

\* C17, as stated: what one drainDiscovered() hands out never holds two
\* records with the same (lobbyId, endpoint).
C17_DrainedOnce ==
    [][last'.op = "dialogPass" =>
          \A key \in Keys : Cardinality(WithKey(last'.arg[1], key)) <= 1]_vars
\* C17: the list the dialog merges the drained results into never holds two
\* records with the same (lobbyId, endpoint), and an Advertise of (L, E)
\* received while discovering leads to exactly one record for (L, E) in that
\* list, unless the dialog leaves its Join tab.
C17_ListedOnce ==
    /\ [](\A key \in Keys : Cardinality(WithKey(dialog.discovered, key)) <= 1)
    /\ \A key \in Keys : Received(key) ~> (Listed(key) \/ dialog.viewMode = "Host")
\* A pass has just drained two records of the first lobby, and the list
\* holds one.
C17_Witness ==
    /\ last.op = "dialogPass"
    /\ Cardinality(WithKey(last.arg[1], <<1, RawAddr, lobbyDefaultTcpPort>>)) >= 2
    /\ Listed(<<1, RawAddr, lobbyDefaultTcpPort>>)
\* The last record with the given key in a list that has one.
LastWithKey(list, key) ==
    list[CHOOSE k \in WithKey(list, key) : \A j \in WithKey(list, key) : j <= k]
\* What an advertisement says of its lobby besides the key.
Advertised(info) == <<info.lobbyName, info.hostPlayerName, info.privacy>>

\* C18 (never two): the merged list never holds two records with the same
\* (lobbyId, endpoint address, endpoint port).
C18_OnePerKey == \A key \in Keys : Cardinality(WithKey(dialog.discovered, key)) <= 1
\* C18: after a pass that stays on the Join tab has merged what it drained,
\* the list holds exactly one record for every key drained, with the lobby
\* name, host player name and privacy of the newest advertisement drained
\* for that key.
C18_Superseded ==
    [][last'.op = "dialogPass" /\ last'.arg[2] = "none" =>
          \A key \in Keys :
              WithKey(last'.arg[1], key) # {} =>
                  /\ Cardinality(WithKey(dialog'.discovered, key)) = 1
                  /\ Advertised(LastWithKey(dialog'.discovered, key))
                         = Advertised(LastWithKey(last'.arg[1], key))]_vars
\* ------------------------------------------------- connecting to a host
\* The discovery entry of the model's host, once started on the default
\* port: its endpoint port is not the advertised TCP port, which is the one
\* connectToHost must use.
OwnInfo == HostInfo(NameL, NameA, PrivacyOpen, lobbyDefaultTcpPort, HostAddr, EphemeralPort, 1)

\* A lobby on the default port and a client that connects to it or to a
\* foreign host, with every outcome of the connect, while both sides pump.
ConnectNext ==
    \/ host = HostInit /\ Start(OpenArgs, 1, "default")
    \/ Pump
    \/ \E info \in {OwnInfo, RawInfo}, outcome \in ConnectOutcomes :
           ConnectToHost(info, NameB, CodeK, outcome)
    \/ Disconnect
    \/ PumpConnection
    \/ \E c \in Conns : Establish(c)

ConnectSpec == Init /\ [][ConnectNext]_vars

\* C20 (handed to send): a connectToHost() that returns true leaves the
\* client connected, on a connection to the advertised TCP port of the
\* entry's address, and has handed to send exactly one frame, the Hello with
\* the entry's lobbyId, the player name and the invite code; one that
\* returns false leaves the client not connected and has sent nothing.
C20_CallStep ==
    last'.op = "connectToHost" =>
        LET info == last'.arg[1]
            hello == Put32(Len(makePacket(MsgHello, HelloBody(info.lobbyId, last'.arg[2], last'.arg[3]))))
                         \o makePacket(MsgHello, HelloBody(info.lobbyId, last'.arg[2], last'.arg[3]))
        IN IF last'.ret
           THEN /\ isConnected(client') /\ client'.tcp = Len(conns')
                /\ conns'[client'.tcp].port = info.tcpPort
                /\ conns'[client'.tcp].serverKind = (IF info.endpoint.address = HostAddr THEN "host" ELSE "raw")
                /\ last'.sends = <<[conn |-> client'.tcp, data |-> hello]>>
           ELSE /\ ~isConnected(client')
                /\ last'.sends = <<>>
                /\ last'.arg[4] \in {"noSubsystem", "noSocket", "refused"}
C20_HandedToSend == [][C20_CallStep]_vars
\* C20: and when it returns true for the model's host, running and
\* listening on the advertised port, the Hello is what the new TCP stream
\* carries to the host.
C20_StreamStep ==
    (/\ last'.op = "connectToHost" /\ last'.ret
     /\ last'.arg[1].endpoint.address = HostAddr
     /\ host.running /\ host.tcpPort = last'.arg[1].tcpPort) =>
        conns'[client'.tcp].toServer = last'.sends[1].data
C20_HelloOnStream == [][C20_CallStep /\ C20_StreamStep]_vars
\* ------------------------------------------- one connection per client
\* The connections the client opened, and those it still holds a handle of.
ClientConns == {c \in Conns : conns[c].peerKind = "client"}
OpenClientConns == {c \in ClientConns : conns[c].peerOpen}

\* C21 (state): the client holds a handle of at most one TCP connection, the
\* one _tcp is attached to; _connected is true only while _tcp is valid; and
\* no connection it has let go of has bytes left for it.
C21_OneOpen ==
    /\ Cardinality(OpenClientConns) <= 1
    /\ OpenClientConns \subseteq {client.tcp}
    /\ client.connected => client.tcpValid
    /\ \A c \in ClientConns \ {client.tcp} : conns[c].toPeer = <<>>
\* C21 (steps): connectToHost() closes the connection the client was on and
\* leaves the receive buffer and the chat queue empty; when it returns true
\* the client is on a connection opened by this call, with nothing received
\* yet; and pumpConnection() reads from no connection but the current one.
C21_Step ==
    /\ last'.op = "connectToHost" =>
           /\ client.tcp # 0 => ~conns'[client.tcp].peerOpen
           /\ client'.rx = <<>> /\ client'.chat = <<>>
           /\ last'.ret => /\ client'.tcp \in DOMAIN conns' \ Conns
                           /\ conns'[client'.tcp].toPeer = <<>>
    /\ last'.op = "pumpConnection" => \A c \in Conns \ {client.tcp} : last'.reads[c] = <<>>
\* C21: a LanLobbyClient holds at most one open TCP connection in every
\* reachable state; connectToHost() called while connected first disconnects
\* (previous socket closed, receive buffer and chat queue cleared), so that
\* nothing of the previous connection is seen in the new one; and the
\* connected flag is true only while the TCP socket is valid.
C21_OneConnection == []C21_OneOpen /\ [][C21_Step]_vars
\* connectToHost() has just returned true on the client's second connection,
\* after the foreign host had written twice on the first one, which is
\* closed.
C21_Witness ==
    /\ last.op = "connectToHost" /\ last.ret
    /\ host = HostInit /\ events >= 2
    /\ client.tcp = 2 /\ isConnected(client)
    /\ conns[1].peerKind = "client" /\ ~conns[1].peerOpen
    /\ client.rx = <<>> /\ client.chat = <<>>
\* -------------------------------------------------- end-to-end handshake
\* An Open lobby started once, on the default or on an OS-assigned port, and
\* a client on another machine that discovers it, connects to an entry of
\* its discovered queue as "B" with no invite code, and chats, while both
\* sides pump; the connect ends in each of its ways.
HandshakeNext ==
    \/ host = HostInit /\ \E outcome \in {"default", "ephemeral"} : Start(OpenArgs, 1, outcome)
    \/ Pump
    \/ client = ClientInit /\ StartDiscovery("bound")
    \/ PumpDiscovery
    \/ \E k \in 1..Len(client.discovered), outcome \in {"refused", "progress", "done"} :
           ConnectToHost(client.discovered[k], NameB, <<>>, outcome)
    \/ PumpConnection
    \/ \E text \in {TextHi} : SendChat(text)
    \/ \E c \in Conns : Establish(c)
    \/ Tick

HandshakeSpec == Init /\ [][HandshakeNext]_vars

\* The client has just been told it is connected to the running lobby of
\* the model's host: connectToHost(entry, "B", "") returned true for an
\* entry with the lobby's address, id and TCP port.
JustConnected ==
    /\ last.op = "connectToHost" /\ last.ret
    /\ last.arg[1].endpoint.address = HostAddr
    /\ host.running /\ host.lobbyId = last.arg[1].lobbyId /\ host.tcpPort = last.arg[1].tcpPort
\* The host has a joined session named "B" on the client's connection.
JoinedAsB(h) ==
    \E i \in 1..Len(h.clients) :
        h.clients[i].socket = client.tcp /\ h.clients[i].joined /\ h.clients[i].name = NameB
\* The pump() that follows the connectToHost() leaves a joined session named
\* "B" and has appended "B joined" to a chat queue that begins with "Lobby
\* started".
C22_PumpStep ==
    JustConnected /\ last'.op = "pump" =>
        /\ JoinedAsB(host')
        /\ Len(host'.chat) > Len(host.chat)
        /\ SubSeq(host'.chat, 1, Len(host.chat)) = host.chat
        /\ host'.chat[Len(host'.chat)] = ChatMessage(now, StrSystem, NameB \o StrJoined)
        /\ host'.chat[1].from = StrSystem /\ host'.chat[1].text = StrLobbyStarted
\* The pumpConnection() that follows a pump() which left the client's session
\* joined leaves the client connected and the session as it is.
C22_PumpConnectionStep ==
    last.op = "pump" /\ JoinedAsB(host) /\ isConnected(client) /\ last'.op = "pumpConnection" =>
        isConnected(client') /\ host' = host
\* C22 (connect completed at once): the handshake when connect() had
\* completed before connectToHost() returned.
C22_HandshakeAtOnce ==
    [][(JustConnected /\ last.arg[4] = "done" => C22_PumpStep) /\ C22_PumpConnectionStep]_vars
\* C22: after a successful start() of an Open lobby, discovery and a
\* connectToHost(entry, "B", "") that returns true, one pump() of the host
\* followed by one pumpConnection() of the client leave the host with a
\* joined session named "B" and the system message "B joined" in its chat
\* queue, after "Lobby started", and the client connected.
C22_Handshake == [][C22_PumpStep /\ C22_PumpConnectionStep]_vars
\* ------------------------------------------------------ the chat queues
\* What a foreign host writes to a client that reads its chat: chat with an
\* old timestamp, and a Kick.
QueueChunks == {ChatFrame(7, NameA, TextHi), KickFrame(StrInvalidInvite)}

\* A lobby, started once, whose peers join and chat and whose user chats and
\* reads the queue; and, apart from it, a client of a foreign host that does
\* the same; the clock advances.
QueueNext ==
    \/ ClientIdle /\ host = HostInit /\ Start(OpenArgs, 1, "default")
    \/ ClientIdle /\ Stop
    \/ ClientIdle /\ Pump
    \/ ClientIdle /\ HostPopChat
    \/ ClientIdle /\ \E text \in {TextHi} : SendChatFromHost(text)
    \/ ClientIdle /\ RawConnect
    \/ ClientIdle /\ \E c \in Conns, bytes \in {HelloFrame(host.lobbyId, NameB, <<>>), ChatFrame(7, NameB, TextHi)} :
                         Read(c) /\ RawSend(c, bytes)
    \/ HostIdle /\ \E outcome \in {"done", "refused"} : ConnectToHost(RawInfo, NameB, <<>>, outcome)
    \/ HostIdle /\ Disconnect
    \/ HostIdle /\ PumpConnection
    \/ HostIdle /\ ClientPopChat
    \/ HostIdle /\ \E text \in {TextHi} : SendChat(text)
    \/ HostIdle /\ \E c \in Conns, bytes \in QueueChunks : Read(c) /\ RawServerSend(c, bytes)
    \/ Tick

QueueSpec == Init /\ [][QueueNext]_vars

IsPrefix(a, b) == Len(a) <= Len(b) /\ SubSeq(b, 1, Len(a)) = a

\* C23: popChat() of the host and of the client returns nothing and changes
\* nothing when the queue is empty, and otherwise returns the oldest queued
\* message and removes exactly that one; every other call either empties the
\* queue (start, stop; disconnect, connectToHost, a pumpConnection that ends
\* disconnected) or leaves the queued messages as they are, in place, and
\* appends behind them: messages come out in the order they were appended,
\* whatever their timestamps, with the (timestampMs, from, text) they were
\* appended with.
C23_Step ==
    /\ last'.op = "hostPopChat" =>
           /\ client' = client /\ conns' = conns
           /\ IF host.chat = <<>> THEN last'.arg = <<>> /\ host' = host
              ELSE last'.arg = <<host.chat[1]>> /\ host' = [host EXCEPT !.chat = Tail(host.chat)]
    /\ last'.op = "clientPopChat" =>
           /\ host' = host /\ conns' = conns
           /\ IF client.chat = <<>> THEN last'.arg = <<>> /\ client' = client
              ELSE last'.arg = <<client.chat[1]>> /\ client' = [client EXCEPT !.chat = Tail(client.chat)]
    /\ last'.op \notin {"hostPopChat", "start", "stop"} => IsPrefix(host.chat, host'.chat)
    /\ last'.op \in {"start", "stop"} => IsPrefix(host.chat, host'.chat) \/ Len(host'.chat) <= 1
    /\ last'.op # "clientPopChat" =>
           \/ IsPrefix(client.chat, client'.chat)
           \/ ~isConnected(client') /\ client'.chat = <<>>
           \/ last'.op = "connectToHost" /\ client'.chat = <<>>
C23_PopChat == [][C23_Step]_vars
\* The host's popChat() has just returned a message whose timestamp is later
\* than that of the message now at the front of the queue.
C23_Witness ==
    /\ last.op = "hostPopChat" /\ last.arg # <<>>
    /\ host.chat # <<>>
    /\ last.arg[1].timestampMs > host.chat[1].timestampMs
\* ------------------------------------------ the client's two sub-machines
\* A client that discovers and connects at once: every discovery call and
\* every connection call in any order, with a foreign host that advertises,
\* answers, chats, kicks and closes.
TwoMachinesNext ==
    \/ \E outcome \in {"noSocket", "unbound", "bound"} : StartDiscovery(outcome)
    \/ StopDiscovery
    \/ PumpDiscovery
    \/ DrainDiscovered
    \/ \E outcome \in ConnectOutcomes : ConnectToHost(RawInfo, NameB, <<>>, outcome)
    \/ Disconnect
    \/ PumpConnection
    \/ \E text \in {TextHi} : SendChat(text)
    \/ ClientPopChat
    \/ \E c \in Conns : Establish(c)
    \/ \E c \in Conns, bytes \in QueueChunks : Read(c) /\ RawServerSend(c, bytes)
    \/ \E c \in Conns, abort \in BOOLEAN : RawServerClose(c, abort)
    \/ RawDatagram(AdvertiseOne)

TwoMachinesSpec == Init /\ [][TwoMachinesNext]_vars

\* What the client holds of its connection, and of its discovery.
ConnectionState(cl) ==
    <<cl.connected, cl.tcpValid, cl.tcp, cl.rx, cl.chat, cl.playerName, cl.inviteCode>>
DiscoveryState(cl) == <<cl.discovering, cl.udp, cl.bound, cl.discovered>>
DiscoveryCalls == {"startDiscovery", "stopDiscovery", "pumpDiscovery", "drainDiscovered"}
TcpCalls == {"connectToHost", "disconnect", "pumpConnection", "sendChat", "clientPopChat"}

\* C24: startDiscovery(), stopDiscovery(), pumpDiscovery() and
\* drainDiscovered() never change the connection state (connected flag, TCP
\* socket and its connection, receive buffer, chat queue), and
\* connectToHost(), disconnect(), pumpConnection(), sendChat() and popChat()
\* never change the discovery state (discovering flag, UDP socket and the
\* datagrams pending on it, discovered queue).
C24_Step ==
    /\ last'.op \in DiscoveryCalls =>
           ConnectionState(client') = ConnectionState(client) /\ conns' = conns
    /\ last'.op \in TcpCalls =>
           DiscoveryState(client') = DiscoveryState(client) /\ udpQ' = udpQ
C24_Independent == [][C24_Step]_vars
\* stopDiscovery() has just returned on a client that discovers no more and
\* is still connected, with chat queued and bytes
\* of the host not yet read.
C24_Witness ==
    /\ last.op = "stopDiscovery"
    /\ ~client.discovering /\ ~client.udp
    /\ isConnected(client) /\ client.chat # <<>>
    /\ conns[client.tcp].toPeer # <<>>
\* ------------------------------------------------------------ reassembly
\* Reads one stream may be cut into.
MaxReads == 3

\* Streams of well-formed frames, as lists of frames, for a lobby with id 1:
\* a handshake and chat; chat before and after the handshake; a frame with
\* another magic between them; a handshake for another lobby first.
StreamsToHost ==
    { <<HelloFrame(1, NameB, <<>>), ChatFrame(7, NameB, TextHi)>>,
      <<ChatFrame(7, NameB, TextHi), HelloFrame(1, NameB, <<>>), ChatFrame(8, NameB, TextHi)>>,
      <<HelloFrame(1, NameB, <<>>),
        RawFrame(BadMagic, lobbyProtocolVersion, MsgChat, ChatBody(7, NameB, TextHi)),
        ChatFrame(7, NameB, TextHi)>>,
      <<HelloFrame(2, NameB, <<>>), ChatFrame(7, NameB, TextHi)>> }
\* The same for the client: an answer to its Hello and chat; a Kick between
\* two chats; a frame with another version first.
StreamsToClient ==
    { <<HelloAckFrame(1, NameL, NameA, PrivacyOpen), ChatFrame(7, NameA, TextHi),
        ChatFrame(8, NameB, TextHi)>>,
      <<ChatFrame(7, NameA, TextHi), KickFrame(StrInvalidInvite), ChatFrame(8, NameA, TextHi)>>,
      <<RawFrame(lobbyMagic, BadVersion, MsgChat, ChatBody(7, NameA, TextHi)),
        ChatFrame(7, NameA, TextHi)>> }

RECURSIVE Flat(_)
Flat(frames) == IF frames = <<>> THEN <<>> ELSE frames[1] \o Flat(Tail(frames))
\* Where the frames of a list end in its byte stream.
FrameEnds(frames) == {Len(Flat(SubSeq(frames, 1, k))) : k \in 1..Len(frames)}
\* Cut positions next to the structure: inside each length prefix, inside
\* each body one byte before its end, and at each frame end.
Marks(frames) ==
    {k \in 1..(Len(Flat(frames)) - 1) :
        k = 2 \/ \E b \in FrameEnds(frames) : k - b \in {0 - 1, 0, 2}}
\* The ways a stream is cut: at any one position, and at up to MaxReads - 1
\* positions next to the structure; a cut is the increasing sequence of its
\* positions.
CutsOf(frames) ==
    {<<k>> : k \in 1..(Len(Flat(frames)) - 1)}
        \cup UNION {{q \in [1..n -> Marks(frames)] : \A i \in 1..(n - 1) : q[i] < q[i + 1]} :
                        n \in 0..(MaxReads - 1)}
\* The successive reads a cut makes of the bytes s.
RECURSIVE PiecesFrom(_, _, _)
PiecesFrom(s, cut, done) ==
    IF cut = <<>> THEN <<Drop(s, done)>>
    ELSE <<SubSeq(s, done + 1, cut[1])>> \o PiecesFrom(s, Tail(cut), cut[1])
Pieces(s, cut) == PiecesFrom(s, cut, 0)
\* Every stream with the cuts of it: the whole stream and, for each cut, its
\* reads.
CasesOf(streams) ==
    {[whole |-> Flat(f), cuts |-> {Pieces(Flat(f), cut) : cut \in CutsOf(f)}] : f \in streams}
CasesToHost == CasesOf(StreamsToHost)
CasesToClient == CasesOf(StreamsToClient)

\* The session on socket sock is delivered the reads one at a time and is
\* pumped after each, as pump() does it (_pumpClient, then the erase of the
\* closed sessions); a closed session reads no more.
RECURSIVE HostReads(_, _, _)
HostReads(w, sock, reads) ==
    IF reads = <<>> \/ sock \notin SessionSocks(w.host) THEN w
    ELSE LET i == CHOOSE k \in 1..Len(w.host.clients) : w.host.clients[k].socket = sock
             w1 == HostPumpClient([w EXCEPT !.conns[sock].toServer = @ \o reads[1]], i)
         IN HostReads([w1 EXCEPT !.host.clients = PruneClients(@)], sock, Tail(reads))
\* The same for the client and pumpConnection().
RECURSIVE ClientReads(_, _)
ClientReads(w, reads) ==
    IF reads = <<>> \/ ~isConnected(w.client) THEN w
    ELSE ClientReads(ClientPumpTcp([w EXCEPT !.conns[w.client.tcp].toPeer = @ \o reads[1]]),
                     Tail(reads))
\* What the reads have made of the host and of the client: the state, the
\* connections and the packets sent, in order.
HostOutcome(w) == <<w.host, w.conns, w.sends>>
ClientOutcome(w) == <<w.client, w.conns, w.sends>>

\* A lobby with id 1, Open or invite-only, whose peers connect and write a
\* handshake cut inside its length prefix; and, apart from it, a client of a
\* foreign host that writes chat cut the same way.
ReassemblyNext ==
    \/ ClientIdle /\ host = HostInit /\ \E a \in LifeArgs : Start(a, 1, "default")
    \/ ClientIdle /\ Pump
    \/ ClientIdle /\ RawConnect
    \/ ClientIdle /\ \E c \in Conns, bytes \in {Take(HelloFrame(1, NameB, host.inviteCode), 2),
                                               Drop(HelloFrame(1, NameB, host.inviteCode), 2)} :
                         Read(c) /\ RawSend(c, bytes)
    \/ HostIdle /\ ConnectToHost(RawInfo, NameB, <<>>, "done")
    \/ HostIdle /\ PumpConnection
    \/ HostIdle /\ \E c \in Conns, bytes \in {Take(ChatFrame(7, NameA, TextHi), 2),
                                             Drop(ChatFrame(7, NameA, TextHi), 2)} :
                       Read(c) /\ RawServerSend(c, bytes)

ReassemblySpec == Init /\ [][ReassemblyNext]_vars

\* The sessions and the client at a frame boundary: nothing retained, nothing
\* unread, both ends open.
AtBoundary(c) == conns[c].toServer = <<>> /\ conns[c].serverOpen /\ conns[c].peerOpen
FreshSessions == {c \in SessionSocks(host) : c # 0 /\ SessionOf(host, c).rx = <<>> /\ AtBoundary(c)}
ClientFresh ==
    /\ isConnected(client) /\ client.rx = <<>>
    /\ conns[client.tcp].estab /\ conns[client.tcp].toPeer = <<>>
    /\ conns[client.tcp].serverOpen /\ conns[client.tcp].peerOpen

\* C25: for every stream of well-formed frames and every cut of it into
\* successive reads (inside a length prefix, inside a body, several frames
\* in one read), the host's receive loop of a session and the client's
\* receive loop dispatch the same messages, in the same order, as when the
\* stream arrives in a single read: the same joins, chat queue, packets sent
\* and closes, and the same bytes retained.
C25_Reassembly ==
    /\ \A c \in FreshSessions : \A x \in CasesToHost :
           LET single == HostOutcome(HostReads(World(host, conns), c, <<x.whole>>))
           IN \A reads \in x.cuts :
                  HostOutcome(HostReads(World(host, conns), c, reads)) = single
    /\ ClientFresh => \A x \in CasesToClient :
           LET single == ClientOutcome(ClientReads(CWorld(client, conns), <<x.whole>>))
           IN \A reads \in x.cuts :
                  ClientOutcome(ClientReads(CWorld(client, conns), reads)) = single
\* A pump() has just read the rest of a handshake that had been cut inside
\* its length prefix, and the session is joined, next to a second session
\* that has read nothing yet.
C25_Witness ==
    /\ last.op = "pump"
    /\ \E c \in SessionSocks(host) :
           /\ last.reads[c] = Drop(HelloFrame(1, NameB, host.inviteCode), 2)
           /\ SessionOf(host, c).joined
    /\ FreshSessions # {} /\ Len(host.clients) = 2
\* ------------------------------------------------------ codec round trip
\* Chat texts: empty, short, with bytes 0 and 255, and the two around the
\* frame limit for a one-byte sender name: the packet (9 bytes of header, 8
\* of timestamp, 4 + 1 of name, 4 + the text) is of 65536 bytes with the
\* first and of 65537 with the second.
TextOdd == <<10, 0, 255>>
TextAtLimit == [k \in 1..(maxPacketLen - 26) |-> 97]
TextOverLimit == [k \in 1..(maxPacketLen - 25) |-> 97]
\* Chat messages to encode: every combination of small fields (timestamps up
\* to the largest the model's integers hold), and the two long texts.
SmallMessages ==
    {ChatMessage(ts, from, text) : ts \in {0, 7, 256, 2147483647},
                                   from \in {<<>>, NameB, <<0, 255>>},
                                   text \in {<<>>, TextHi, TextOdd}}
MessagesInLimit == SmallMessages \cup {ChatMessage(7, NameB, TextAtLimit)}
MessagesAny == MessagesInLimit \cup {ChatMessage(7, NameB, TextOverLimit)}

\* sendChat / sendChatFromHost / the relay: makePacket( Chat, ts, from, text )
\* framed by _sendPacket.
EncodeChat(msg) == Framed(makePacket(MsgChat, ChatBody(msg.timestampMs, msg.from, msg.text)))

\* The client, and the host for the session on sock, pumped until the bytes
\* waiting on the connection are read (4096 at a time) or the connection is
\* given up.
RECURSIVE ClientReadAll(_)
ClientReadAll(w) ==
    IF ~isConnected(w.client) \/ w.conns[w.client.tcp].toPeer = <<>> THEN w
    ELSE ClientReadAll(ClientPumpTcp(w))
RECURSIVE HostReadAll(_, _)
HostReadAll(w, sock) ==
    IF sock \notin SessionSocks(w.host) \/ w.conns[sock].toServer = <<>> THEN w
    ELSE LET i == CHOOSE k \in 1..Len(w.host.clients) : w.host.clients[k].socket = sock
             w1 == HostPumpClient(w, i)
         IN HostReadAll([w1 EXCEPT !.host.clients = PruneClients(@)], sock)

\* The frame of msg arrives at the client, which decodes it: the message is
\* appended to the chat queue as it was encoded, the client stays connected
\* and retains nothing.
ClientDecodes(msg) ==
    LET w == ClientReadAll([CWorld(client, conns) EXCEPT !.conns[client.tcp].toPeer = EncodeChat(msg)])
    IN /\ isConnected(w.client) /\ w.client.rx = <<>>
       /\ w.client.chat = Append(client.chat, msg)
\* The same at the host, for the joined session on sock.
HostDecodes(sock, msg) ==
    LET w == HostReadAll([World(host, conns) EXCEPT !.conns[sock].toServer = EncodeChat(msg)], sock)
    IN /\ sock \in SessionSocks(w.host) /\ SessionOf(w.host, sock).rx = <<>>
       /\ w.host.chat = Append(host.chat, msg)

\* A lobby whose peers join and chat, and, apart from it, a client of a
\* foreign host; both users chat, short and long, and read their queues.
CodecNext ==
    \/ ClientIdle /\ host = HostInit /\ Start(OpenArgs, 1, "default")
    \/ ClientIdle /\ Pump
    \/ ClientIdle /\ HostPopChat
    \/ ClientIdle /\ \E text \in {TextHi, TextOdd} : SendChatFromHost(text)
    \/ ClientIdle /\ RawConnect
    \/ ClientIdle /\ \E c \in Conns, bytes \in {HelloFrame(1, NameB, <<>>), ChatFrame(7, NameB, TextOdd)} :
                         Read(c) /\ RawSend(c, bytes)
    \/ HostIdle /\ \E name \in {NameB, <<>>} : ConnectToHost(RawInfo, name, <<>>, "done")
    \/ HostIdle /\ PumpConnection
    \/ HostIdle /\ ClientPopChat
    \/ HostIdle /\ \E text \in {TextHi, TextOdd} : SendChat(text)
    \/ HostIdle /\ \E c \in Conns : Read(c) /\ RawServerSend(c, ChatFrame(7, NameA, TextOdd))

CodecSpec == Init /\ [][CodecNext]_vars

\* The joined sessions at a frame boundary.
FreshJoined == {c \in FreshSessions : SessionOf(host, c).joined}

\* C26 (within the frame limit): a Chat message whose packet is of at most
\* 65536 bytes, encoded by makePacket and framed, is decoded by the client's
\* and by the host's receive loop to the identical (ts, from, text).
C26_RoundTripInLimit ==
    /\ ClientFresh => \A msg \in MessagesInLimit : ClientDecodes(msg)
    /\ \A c \in FreshJoined : \A msg \in MessagesInLimit : HostDecodes(c, msg)
\* C26: for every Chat message (ts, from, text), the packet built by
\* makePacket(Chat, ts, from, text), framed with the 4-byte length prefix and
\* parsed by the receiver's frame extraction, parseHeader and body decode,
\* yields type Chat and the identical (ts, from, text).
C26_RoundTrip ==
    /\ ClientFresh => \A msg \in MessagesAny : ClientDecodes(msg)
    /\ \A c \in FreshJoined : \A msg \in MessagesAny : HostDecodes(c, msg)
\* -------------------------------------------------------- idle sessions
\* What a peer that never completes the handshake writes: chat, the start
\* of a Hello; and a whole Hello, for the peers that do join.
IdleChunks ==
    { ChatFrame(7, NameB, TextHi),
      Take(HelloFrame(host.lobbyId, NameB, host.inviteCode), 6),
      HelloFrame(host.lobbyId, NameB, host.inviteCode) }

\* An Open lobby, started once, that is pumped and stopped while the clock
\* advances and peers connect and then stay silent or write something else
\* than a whole Hello; the first of them may close its end.
IdleNext ==
    \/ host = HostInit /\ Start(OpenArgs, 1, "default")
    \/ Stop
    \/ Pump
    \/ Tick
    \/ RawConnect
    \/ \E c \in Conns, bytes \in IdleChunks : Read(c) /\ RawSend(c, bytes)
    \/ \E c \in Conns \cap {1} : RawClose(c)

IdleSpec == Init /\ [][IdleNext]_vars

\* C27: there is no idle or handshake timeout. A pump() keeps every session
\* that is not joined, whose recv does not fail and whose stream reaches
\* neither a bad length prefix nor a Hello with the protocol's header (it
\* may be silent, or its peer may have closed its end): the session stays in
\* the list, in its place among the sessions kept, not joined and unnamed,
\* whatever the clock reads; and no call but pump(), stop() and start()
\* changes the session list.
C27_Step ==
    /\ PumpStep =>
           \A c \in PumpSocks :
               LET f == Frames(c)
               IN (/\ ~JoinedBefore(c) /\ f.end = "short"
                   /\ ~(conns[c].toServer = <<>> /\ conns[c].serverRst)
                   /\ ~SomePacket(ValidPackets(f.packets), MsgHello)) =>
                     /\ c \in SessionSocks(host') /\ conns'[c].serverOpen
                     /\ ~SessionOf(host', c).joined /\ SessionOf(host', c).name = <<>>
                     /\ last'.reads[c] = <<>> /\ c \in SessionSocks(host) =>
                            SessionOf(host', c) = SessionOf(host, c)
    /\ last'.op \notin {"pump", "start", "stop"} => host'.clients = host.clients
C27_NoTimeout == [][C27_Step]_vars
\* After the clock has advanced to its bound, a pump() has just kept a
\* session that is not joined and has never written anything, whose peer has
\* closed its end, beside a joined session.
C27_Witness ==
    /\ last.op = "pump" /\ ticks = MaxTicks
    /\ \E c \in SessionSocks(host), d \in SessionSocks(host) :
           /\ ~SessionOf(host, c).joined /\ SessionOf(host, c).rx = <<>>
           /\ last.reads[c] = <<>> /\ ~conns[c].peerOpen
           /\ SessionOf(host, d).joined

\* --------------------------------------------------------- C28: Socket
\* Socket objects are constructed (by default, with a type, from another
\* Socket, or by accept() on a valid TCP Socket), assigned from one another
\* or from themselves, closed and destroyed, in any order, in a process that
\* was started with its standard input open or closed.
Alive == {o \in Sockets : sockets.objs[o].alive}
NotAlive == Sockets \ Alive

SocketStep(name, args, s) ==
    /\ sockets' = s
    /\ last' = [Op(name) EXCEPT !.arg = args]
    /\ UNCHANGED <<host, client, conns, pending, udpQ, now, ticks, events, dialog>>

Construct(o) == SocketStep("Socket", <<o>>, SocketDefault(sockets, o))
ConstructTyped(o, type, ok) ==
    SocketStep("Socket(Type)", <<o, type, ok>>, SocketCreate(sockets, o, type, ok))
MoveConstruct(o, other) == SocketStep("Socket(Socket&&)", <<o, other>>, SocketMove(sockets, o, other))
MoveAssign(o, other) == SocketStep("operator=", <<o, other>>, SocketAssign(sockets, o, other))
Close(o) == SocketStep("close", <<o>>, SocketClose(sockets, o))
Destroy(o) == SocketStep("~Socket", <<o>>, SocketDestroy(sockets, o))
Accept(listener, o) ==
    /\ isValid(sockets, listener) /\ sockets.objs[listener]._type = "TCP"
    /\ SocketStep("accept", <<listener, o>>, SocketAccepted(sockets, o))

SocketInit ==
    /\ host = HostInit
    /\ client = ClientInit
    /\ conns = <<>>
    /\ pending = <<>>
    /\ udpQ = <<>>
    /\ now = StartNow
    /\ ticks = 0
    /\ events = 0
    /\ last = Op("init")
    /\ dialog = DialogInit
    /\ sockets \in {NoSockets({0}), NoSockets({})}

SocketNext ==
    \/ \E o \in NotAlive : Construct(o)
    \/ \E o \in NotAlive, type \in {"UDP", "TCP"}, ok \in BOOLEAN : ConstructTyped(o, type, ok)
    \/ \E o \in NotAlive, other \in Alive : MoveConstruct(o, other)
    \/ \E o \in Alive, other \in Alive : MoveAssign(o, other)
    \/ \E o \in Alive : Close(o)
    \/ \E o \in Alive : Destroy(o)
    \/ \E listener \in Alive, o \in NotAlive : Accept(listener, o)

SocketSpec == SocketInit /\ [][SocketNext]_vars

\* The Sockets that are valid and hold descriptor d.
Owners(s, d) == {o \in Sockets : s.objs[o].alive /\ isValid(s, o) /\ s.objs[o]._handle = d}

\* Every descriptor a Socket holds is open and held by that Socket alone.
HeldOnce(s) ==
    \A o \in Sockets :
        isValid(s, o) => s.objs[o].alive /\ s.objs[o]._handle \in s.open
                         /\ Owners(s, s.objs[o]._handle) = {o}

\* What a move, a close and a destruction do to the objects.
C28_Step ==
    LET o == last'.arg[1]
        other == last'.arg[2]
    IN /\ last'.op = "Socket(Socket&&)" =>
              /\ ~isValid(sockets', other)
              /\ sockets'.objs[o]._handle = sockets.objs[other]._handle
              /\ sockets'.open = sockets.open
       /\ last'.op = "operator=" /\ o # other =>
              /\ ~isValid(sockets', other)
              /\ sockets'.objs[o]._handle = sockets.objs[other]._handle
              /\ sockets'.open = IF isValid(sockets, o)
                                 THEN sockets.open \ {sockets.objs[o]._handle}
                                 ELSE sockets.open
       /\ last'.op = "operator=" /\ o = other => sockets' = sockets
       /\ last'.op = "close" /\ ~isValid(sockets, o) => sockets' = sockets
       /\ last'.op \in {"close", "~Socket"} /\ isValid(sockets, o) =>
              /\ sockets'.open = sockets.open \ {sockets.objs[o]._handle}
       /\ last'.op \in {"close", "~Socket"} => ~isValid(sockets', o)

\* The part of C28 that holds: no descriptor is held by two Sockets or by
\* a Socket after its release, ::close() is only called on an open socket,
\* and moves, close() and the destructor act as stated.
C28_NeverTwice == [](HeldOnce(sockets) /\ ~sockets.wild) /\ [][C28_Step]_vars

\* C28: at every moment each open handle is owned by exactly one Socket; a
\* move leaves its source invalid and an assignment closes the handle its
\* destination held; close() on a closed or moved-from Socket does nothing;
\* each handle is released exactly once, never twice and never leaked.
C28_Ownership ==
    /\ [](\A d \in sockets.open : Cardinality(Owners(sockets, d)) = 1)
    /\ C28_NeverTwice

\* A Socket constructed with a type whose ::socket() succeeded and which is
\* not valid: the descriptor it was given is open and has no owner.
C28_Leaked ==
    /\ last.op = "Socket(Type)" /\ last.arg[3]
    /\ ~isValid(sockets, last.arg[1])
    /\ 0 \in sockets.open /\ Owners(sockets, 0) = {}


\* ---------------------------------------------------- C29: the cadence
\* Clock ticks in one behaviour of CadenceSpec.
CadenceTicks == 4

\* The fields of an Advertise datagram, as the client's parser reads them.
AdvertiseFields(d) ==
    LET id == Get64(BodyOf(d))
        port == Get16(id.r)
        privacy == Get8(port.r)
        lobbyName == GetString(privacy.r)
        hostPlayerName == GetString(lobbyName.r)
    IN <<id.v, port.v, privacy.v, lobbyName.v, hostPlayerName.v>>

\* The Advertise datagrams of lobby id among the datagrams q.
AdvertisesOf(q, id) ==
    {k \in 1..Len(q) : AdvertiseOk(q[k].data) /\ AdvertiseFields(q[k].data)[1] = id}

\* _randomU64 draws an id that no datagram in flight carries; the ids are
\* drawn in increasing order.
FreshIds == {id \in LobbyIds : \A j \in LobbyIds : j >= id => AdvertisesOf(udpQ, j) = {}}

\* A host that is started, stopped and pumped while the clock advances by
\* half the advertise interval at a time, on a LAN where a client listens
\* for the datagrams.
CadenceNext ==
    \/ \E a \in LifeArgs, id \in FreshIds, outcome \in {"default", "ephemeral", "noListen"} :
           Start(a, id, outcome)
    \/ Stop
    \/ Pump
    \/ TickWithin(CadenceTicks)
    \/ client = ClientInit /\ StartDiscovery("bound")

CadenceSpec == Init /\ [][CadenceNext]_vars

C29_Step ==
    LET running == host.running
        sent == last'.arg # <<>>
        before == host.lastAdvertiseMs
    IN /\ last'.op = "start" /\ last'.ret => host'.lastAdvertiseMs = 0
       /\ last'.op \notin {"start", "stop", "pump"} => host'.lastAdvertiseMs = before
       /\ last'.op = "stop" => ~host'.running
       /\ last'.op = "pump" /\ ~running => ~sent /\ udpQ' = udpQ
       /\ last'.op = "pump" /\ running =>
              /\ Len(last'.arg) <= 1 /\ Len(udpQ') <= Len(udpQ) + 1
              /\ sent <=> (before = 0 \/ now - before >= advertiseIntervalMs)
              /\ sent /\ before # 0 => now >= before + advertiseIntervalMs
              /\ host'.lastAdvertiseMs = IF sent THEN now ELSE before
              /\ sent => /\ AdvertiseOk(last'.arg[1])
                         /\ AdvertiseFields(last'.arg[1]) =
                                <<host.lobbyId, host.tcpPort, host.privacy,
                                  host.lobbyName, host.hostPlayerName>>
                         /\ host'.lobbyId = host.lobbyId /\ host'.tcpPort = host.tcpPort
                         /\ client.bound => udpQ' = Append(udpQ, [from |-> HostAddr, data |-> last'.arg[1]])
              /\ ~sent => udpQ' = udpQ

\* C29: a pump() on a Running host sends at most one Advertise, and sends
\* one exactly when at least 1000 ms have elapsed since the Advertise sent
\* before it, or none was sent since start(); two consecutive Advertises of
\* one hosting session are at least 1000 ms apart; each carries the host's
\* current lobbyId, tcpPort, privacy, lobbyName and hostPlayerName.
\* _lastAdvertiseMs is 0 while none was sent since start(), else the time
\* of the last one.
C29_Cadence ==
    /\ [](host.running => host.lastAdvertiseMs = 0 \/
                          (StartNow <= host.lastAdvertiseMs /\ host.lastAdvertiseMs <= now))
    /\ [][C29_Step]_vars

\* A pump() has sent the second Advertise of the second hosting session,
\* one interval after the first.
C29_Witness ==
    /\ last.op = "pump" /\ last.arg # <<>> /\ host.running /\ host.lobbyId = 2
    /\ host.lastAdvertiseMs = now
    /\ Cardinality(AdvertisesOf(udpQ, 2)) = 2 /\ Cardinality(AdvertisesOf(udpQ, 1)) >= 1
    /\ udpQ[Len(udpQ)].data = last.arg[1]


\* -------------------------------------------------------- C30: accept
\* The sockets of a session list, in the order of the list.
SocksOf(cl) == [k \in 1..Len(cl) |-> cl[k].socket]

\* The elements of seq that are in set, in the order of seq.
RECURSIVE Among(_, _)
Among(seq, set) ==
    IF seq = <<>> THEN <<>>
    ELSE (IF seq[1] \in set THEN <<seq[1]>> ELSE <<>>) \o Among(Tail(seq), set)

C30_Step ==
    PumpStep =>
        LET n == Len(host.clients)
            accepted == AcceptAll(host.clients, pending)
        IN /\ Len(accepted) = n + Len(pending)
           /\ SubSeq(accepted, 1, n) = host.clients
           /\ \A k \in 1..Len(pending) :
                  accepted[n + k] = [socket |-> pending[k], endpoint |-> conns[pending[k]].peerAddr,
                                     name |-> <<>>, joined |-> FALSE, rx |-> <<>>]
           /\ pending' = <<>>
           \* the sessions left after the pump are the accepted ones whose
           \* socket is still open, in the order they were accepted in
           /\ SocksOf(host'.clients) =
                  Among(SocksOf(host.clients) \o pending, {c \in Conns : conns'[c].serverOpen})
           /\ \A k \in 1..Len(pending) :
                  LET c == pending[k]
                  IN /\ ~conns[c].serverRst /\ Len(conns[c].toServer) <= recvBufSize =>
                            last'.reads[c] = conns[c].toServer /\ conns'[c].toServer = <<>>
                     /\ ~conns[c].serverRst /\ conns[c].toServer = <<>> =>
                            /\ c \in SessionSocks(host')
                            /\ SessionOf(host', c) = accepted[n + k]
           /\ \A c \in SessionSocks(host) :
                  ~conns[c].serverRst /\ conns[c].toServer = <<>> =>
                      c \in SessionSocks(host') /\ SessionOf(host', c) = SessionOf(host, c)

\* C30: one pump() on a Running host turns every connection pending on the
\* listener into a new session appended to the session list in accept
\* order, unjoined, with an empty name and an empty receive buffer;
\* accepting changes no existing session, and the new sessions are read
\* from in that same pump().
C30_Accept == [][C30_Step]_vars

\* The first pump() after start() (the one that advertises while the clock
\* stands still) has accepted two connections at once: the first had sent
\* nothing, the second had sent its Hello and has joined in that pump.
C30_Witness ==
    /\ last.op = "pump" /\ host.running /\ last.arg # <<>> /\ ticks = 0
    /\ Len(host.clients) = 2
    /\ host.clients[1].socket < host.clients[2].socket
    /\ ~host.clients[1].joined /\ host.clients[1].rx = <<>> /\ host.clients[1].name = <<>>
    /\ last.reads[host.clients[1].socket] = <<>>
    /\ host.clients[2].joined
    /\ last.reads[host.clients[2].socket] = HelloFrame(host.lobbyId, NameB, host.inviteCode)


\* --------------------------------------------------------- C31: prune
\* What the peers of PruneSpec write: Hellos that match, miss the lobby id,
\* miss the invite code or do not decode, and a zero length prefix behind a
\* Hello that is accepted.
PruneChunks ==
    { HelloFrame(host.lobbyId, NameB, host.inviteCode),
      HelloFrame(OtherId(host.lobbyId), NameB, host.inviteCode),
      HelloFrame(host.lobbyId, NameB, OtherCode(host.inviteCode)),
      Framed(makePacket(MsgHello, <<>>)),
      HelloFrame(host.lobbyId, NameB, host.inviteCode) \o Put32(0) }

\* A host started once, Open or invite-only, that is pumped and sends chat
\* while peers connect, write and abort their connections.
PruneNext ==
    \/ host = HostInit /\ \E a \in LifeArgs : Start(a, 1, "default")
    \/ Pump
    \/ \E text \in {TextHi} : SendChatFromHost(text)
    \/ RawConnect
    \/ \E c \in Conns, bytes \in PruneChunks : Read(c) /\ RawSend(c, bytes)
    \/ \E c \in Conns : RawReset(c)

PruneSpec == Init /\ [][PruneNext]_vars

\* recv() of session c fails in this pump.
RecvFails(c) == conns[c].toServer = <<>> /\ conns[c].serverRst

\* Session c's socket is closed in this pump: its recv() fails, or its
\* stream holds a Hello that does not decode, misses the lobby id or misses
\* the invite code, or reaches a length prefix of 0 or above 65536.
ClosedInPump(c) ==
    \/ RecvFails(c)
    \/ LET f == Frames(c)
       IN \/ f.end = "bad"
          \/ \E k \in 1..Len(f.packets) :
                 IsPacket(f.packets[k], MsgHello) /\ ~AcceptedHello(f.packets[k])

AllValid(h, cs) ==
    \A k \in 1..Len(h.clients) : h.clients[k].socket # 0 /\ cs[h.clients[k].socket].serverOpen

C31_Step ==
    /\ PumpStep =>
           LET before == SocksOf(host.clients) \o pending
               closed == {c \in PumpSocks : ClosedInPump(c)}
           IN /\ AllValid(host', conns')
              /\ SocksOf(host'.clients) = Among(before, PumpSocks \ closed)
              /\ \A c \in PumpSocks : c \in closed <=> ~conns'[c].serverOpen
    /\ last'.op = "sendChatFromHost" => SocksOf(host'.clients) = SocksOf(host.clients)

\* C31: whenever pump() returns, and whenever sendChatFromHost() runs, every
\* session in the host's list has a valid socket; pump() removes exactly the
\* sessions whose socket was closed during that pump (receive error, frame
\* length violation, failed or mismatching Hello, invite-code kick), keeps
\* the order of the others and removes no session whose socket is valid.
C31_Prune == []AllValid(host, conns) /\ [][C31_Step]_vars

\* A pump() has removed the first of two sessions, whose peer had reset the
\* connection, and kept the second, which is joined.
C31_Witness ==
    /\ last.op = "pump" /\ host.running /\ Len(conns) >= 2
    /\ ~conns[1].serverOpen /\ conns[2].serverOpen
    /\ SocksOf(host.clients) = <<2>> /\ host.clients[1].joined
    /\ Len(host.chat) >= 2 /\ last.reads[1] = <<>> /\ last.reads[2] = <<>>


\* ---------------------------------------------------------- C32: echo
\* The messages a pumpConnection() appends to the client's chat queue.
Appended == SubSeq(client'.chat, Len(client.chat) + 1, Len(client'.chat))

\* The name the client's own messages carry.
OwnName == IF client.playerName = <<>> THEN StrPlayer ELSE client.playerName

\* C32: each chat message a connected, joined client sends with sendChat()
\* occurs exactly once in the sequence its popChat() returns: sendChat()
\* appends the one copy, and no pumpConnection() appends a relayed echo of a
\* message of the client's own (in HandshakeSpec the client is the only
\* sender of messages under its name).
C32_NoEcho ==
    [][/\ last'.op = "sendChat" /\ isConnected(client) => Len(client'.chat) = Len(client.chat) + 1
       /\ PumpConnectionStep /\ Len(client'.chat) > Len(client.chat) =>
              \A k \in 1..Len(Appended) : Appended[k].from # OwnName]_vars

\* The client's queue holds the message it sent twice: its own copy and the
\* host's relay of it.
C32_Echoed ==
    /\ last.op = "pumpConnection" /\ isConnected(client)
    /\ Len(client.chat) = 2 /\ client.chat[1] = client.chat[2]
    /\ client.chat[1].from = NameB /\ client.chat[1].text = TextHi


\* ------------------------------------------------- C33: stopped state
\* C33: in every state where isRunning() is false (as constructed, after
\* stop(), after a start() that returned false), lobbyId() and tcpPort() are
\* 0, the UDP socket and the TCP listener are closed, and the session list
\* and the chat queue are empty.
C33_StoppedState ==
    ~host.running =>
        /\ host.lobbyId = 0 /\ host.tcpPort = 0
        /\ ~host.udp /\ ~host.tcpListen
        /\ host.clients = <<>> /\ host.chat = <<>>

\* The part of C33 that holds: a host that is not running has no session
\* and no chat message.
C33_StoppedEmpty == ~host.running => host.clients = <<>> /\ host.chat = <<>>

\* start() has just returned false from its listen(): the host is not
\* running, and holds a lobby id, a port and two open sockets.
C33_FailedAtListen ==
    /\ last.op = "start" /\ ~last.ret /\ last.arg[3] = "noListen"
    /\ ~host.running
    /\ host.lobbyId # 0 /\ host.tcpPort # 0 /\ host.udp /\ host.tcpListen


\* ------------------------------------------------ C34: a client leaves
\* The client has joined, has read everything the host sent it, and the host
\* has read everything the client sent: a close() now ends the connection
\* with FIN, and nothing the host sends later can be answered by a reset.
Settled ==
    /\ isConnected(client) /\ client.tcp \in SessionSocks(host)
    /\ SessionOf(host, client.tcp).joined
    /\ conns[client.tcp].toPeer = <<>> /\ conns[client.tcp].toServer = <<>>

\* The client may close its connection: it has none, or one to the other
\* host, or it is settled with this host.
MayLeave ==
    IF ~isConnected(client) \/ client.tcp = 0 THEN TRUE
    ELSE conns[client.tcp].serverKind = "raw" \/ Settled

\* An Open lobby started once and a client that connects to it, reads what
\* the host sends and, once settled, leaves by disconnect() or by connecting
\* to another host; it may come back. The host pumps and the clock advances.
\* Nobody chats, so the host sends nothing to a session after its HelloAck.
LeaveNext ==
    \/ host = HostInit /\ Start(OpenArgs, 1, "default")
    \/ Pump
    \/ \E info \in {OwnInfo, RawInfo} : MayLeave /\ ConnectToHost(info, NameB, <<>>, "done")
    \/ MayLeave /\ Disconnect
    \/ PumpConnection
    \/ Tick

LeaveSpec == Init /\ [][LeaveNext]_vars

\* The clock advances, and the dialog's loop calls pump() on the host again
\* and again: infinitely many pump() steps, which is more than weak fairness
\* of Pump asks for.
LeaveLiveSpec == LeaveSpec /\ WF_vars(Tick) /\ []<><<Pump>>_vars

\* The client of session c has closed the connection and the host has
\* nothing left to read from it; no reset is on its way.
HasLeft(c) ==
    /\ c \in Conns /\ host.running /\ c \in SessionSocks(host)
    /\ conns[c].peerKind = "client" /\ ~conns[c].peerOpen
    /\ conns[c].toServer = <<>> /\ ~conns[c].serverRst

\* C34: if a client whose session is in the host's list closes its
\* connection and sends nothing more, then under repeated pump() calls the
\* host eventually removes that session from its list.
C34_Removed == \A c \in 1..MaxConns : HasLeft(c) ~> (c \notin SessionSocks(host))

\* A pump() of the host has read 0 bytes from the connection the client has
\* closed and has kept its session, joined.
C34_Kept ==
    /\ last.op = "pump" /\ HasLeft(1) /\ SessionOf(host, 1).joined
    /\ ~isConnected(client)

\* No pump() removes the session of a client that has left.
C34_NeverRemoved ==
    [][\A c \in 1..MaxConns : HasLeft(c) /\ last'.op = "pump" =>
           c \in SessionSocks(host') /\ SessionOf(host', c) = SessionOf(host, c)]_vars


\* ------------------------------------------ C35: the host closes silently
\* A list entry of the lobby that carries another lobby id (a stale
\* advertisement of the same address and port).
StaleInfo == [OwnInfo EXCEPT !.lobbyId = OtherId(1)]

\* An Open lobby started once and stopped at any time, and a client that
\* connects to it from a fresh or a stale entry and from then on only calls
\* pumpConnection(): it sends nothing after its Hello and never leaves by
\* itself. No Kick is ever sent: the lobby is Open.
QuitNext ==
    \/ host = HostInit /\ Start(OpenArgs, 1, "default")
    \/ Stop
    \/ Pump
    \/ \E info \in {OwnInfo, StaleInfo} :
           ~isConnected(client) /\ ConnectToHost(info, NameB, <<>>, "done")
    \/ PumpConnection
    \/ Tick

QuitSpec == Init /\ [][QuitNext]_vars

\* The clock advances, and the dialog's loop calls pumpConnection() on the
\* client again and again.
QuitLiveSpec == QuitSpec /\ WF_vars(Tick) /\ WF_vars(PumpConnection)

\* The host has closed its end of the connection c the client holds.
ClosedByHost(c) ==
    /\ c \in Conns /\ isConnected(client) /\ client.tcp = c
    /\ conns[c].serverKind = "host" /\ conns[c].estab /\ ~conns[c].serverOpen

\* C35: if the host closes a client's connection without sending a Kick, then
\* under repeated pumpConnection() calls, the client sending nothing, the
\* client's isConnected() eventually becomes false.
C35_Noticed == \A c \in 1..MaxConns : ClosedByHost(c) ~> ~isConnected(client)

\* A pumpConnection() has read 0 bytes from the connection the host has
\* closed, nothing is left to read, and the client still reports connected.
C35_StillConnected ==
    /\ last.op = "pumpConnection" /\ ClosedByHost(1)
    /\ conns[1].toPeer = <<>> /\ ~conns[1].peerRst

\* A close by the host that did not reset the connection is never noticed:
\* the pumpConnection() calls that follow leave the client connected.
C35_NeverNoticed ==
    [][\A c \in 1..MaxConns :
           ClosedByHost(c) /\ ~conns[c].peerRst /\ last'.op = "pumpConnection"
               => isConnected(client') /\ client'.tcp = c]_vars


\* ------------------------------------------- C36: no frame left waiting
\* What a foreign peer writes to the host in one piece: a handshake, a chat
\* and the start of a second chat; the rest of a chat and a whole one; a chat
\* cut inside its body; a chat and a length prefix of 65536; a chat and a
\* length prefix of 0.
DrainChunksToHost ==
    { HelloFrame(1, NameB, <<>>) \o ChatFrame(7, NameB, TextHi) \o Take(ChatFrame(8, NameB, TextHi), 2),
      Drop(ChatFrame(8, NameB, TextHi), 2) \o ChatFrame(9, NameB, TextHi),
      Take(ChatFrame(8, NameB, TextHi), 6),
      ChatFrame(7, NameB, TextHi) \o Put32(maxPacketLen),
      ChatFrame(7, NameB, TextHi) \o Put32(0) }

\* The same from a foreign server to the client.
DrainChunksToClient ==
    { ChatFrame(7, NameA, TextHi) \o ChatFrame(8, NameA, TextHi) \o Take(ChatFrame(9, NameA, TextHi), 2),
      Drop(ChatFrame(9, NameA, TextHi), 2) \o ChatFrame(7, NameA, TextHi),
      Take(ChatFrame(8, NameA, TextHi), 6),
      ChatFrame(7, NameA, TextHi) \o Put32(maxPacketLen),
      ChatFrame(7, NameA, TextHi) \o Put32(0) }

\* Either the host with foreign peers that write to it, or the client with a
\* foreign server that writes to it, each piece written once the last one
\* has been read.
DrainNext ==
    \/ ClientIdle /\ host = HostInit /\ Start(OpenArgs, 1, "default")
    \/ ClientIdle /\ Pump
    \/ ClientIdle /\ RawConnect
    \/ ClientIdle /\ \E c \in Conns, bytes \in DrainChunksToHost : Read(c) /\ RawSend(c, bytes)
    \/ HostIdle /\ ~isConnected(client) /\ ConnectToHost(RawInfo, NameB, <<>>, "done")
    \/ HostIdle /\ PumpConnection
    \/ HostIdle /\ \E c \in Conns, bytes \in DrainChunksToClient : Read(c) /\ RawServerSend(c, bytes)

DrainSpec == Init /\ [][DrainNext]_vars

\* A receive buffer that holds no complete frame: fewer than 4 bytes, or a
\* length prefix of 1..65536 and fewer bytes than it declares.
NoFrame(rx) ==
    \/ Len(rx) < 4
    \/ /\ Le32(rx) >= 1 /\ Le32(rx) <= 65536
       /\ Len(rx) < 4 + Le32(rx)

Drained ==
    /\ \A i \in 1..Len(host.clients) : NoFrame(host.clients[i].rx)
    /\ isConnected(client) => NoFrame(client.rx)

\* C36 (step): after a pump() every remaining session retains exactly what
\* follows the last complete frame of its old buffer and the bytes just read,
\* and that stream did not run into a bad length prefix; the same for a
\* client that is still connected after pumpConnection().
C36_Step ==
    /\ PumpStep => \A c \in SessionSocks(host') :
           Frames(c).end = "short" /\ SessionOf(host', c).rx = Frames(c).rest
    /\ PumpConnectionStep /\ isConnected(client') =>
           ClientFrames.end = "short" /\ client'.rx = ClientFrames.rest

\* C36: no complete frame is left waiting. Whenever pump() returns, the
\* receive buffer of every remaining session holds fewer than 4 bytes or a
\* length prefix of 1..65536 with fewer bytes than the frame needs, and
\* likewise the buffer of a still connected client when pumpConnection()
\* returns: every complete frame is taken off the buffer in the pump that
\* received its last byte.
C36_NoFrameWaiting == []Drained /\ [][C36_Step]_vars

\* A pump() has read a handshake, a chat and two bytes of a second chat in
\* one recv: the session is joined, the chat is queued behind "Lobby
\* started" and the join message, and the two bytes are retained.
C36_Witness ==
    /\ last.op = "pump"
    /\ \E c \in SessionSocks(host) :
          /\ Len(CutFrames(last.reads[c]).packets) = 2
          /\ SessionOf(host, c).rx = Take(ChatFrame(8, NameB, TextHi), 2)
          /\ SessionOf(host, c).joined
    /\ Len(host.chat) = 3 /\ host.chat[3] = ChatMessage(7, NameB, TextHi)


\* ------------------------------------------ C37: membership is checked
\* What a foreign peer writes to the host in one piece: a handshake that
\* matches the lobby, one for another lobby id, one with another invite
\* code; a chat; a chat ahead of a matching handshake; a chat behind a
\* handshake with another invite code.
MemberChunks ==
    { HelloFrame(host.lobbyId, NameB, host.inviteCode),
      HelloFrame(OtherId(host.lobbyId), NameB, host.inviteCode),
      HelloFrame(host.lobbyId, NameB, OtherCode(host.inviteCode)),
      ChatFrame(7, NameB, TextHi),
      ChatFrame(7, NameB, TextHi) \o HelloFrame(host.lobbyId, NameB, host.inviteCode),
      HelloFrame(host.lobbyId, NameB, OtherCode(host.inviteCode)) \o ChatFrame(7, NameB, TextHi) }

\* A lobby started once, Open or invite-only, whose user chats, and peers
\* that connect and write handshakes and chat.
MemberNext ==
    \/ host = HostInit /\ \E a \in LifeArgs : Start(a, 1, "default")
    \/ Pump
    \/ \E text \in {TextHi} : SendChatFromHost(text)
    \/ RawConnect
    \/ \E c \in Conns, bytes \in MemberChunks : Read(c) /\ RawSend(c, bytes)

MemberSpec == Init /\ [][MemberNext]_vars

\* The connections that have passed the check by the end of this pump: the
\* sessions joined before it, and those whose stream in this pump holds a
\* Hello with the host's lobby id and, on an invite-only host, its code.
PassedNow(c) == \E k \in 1..Len(Frames(c).packets) : AcceptedHello(Frames(c).packets[k])
AuthSocks == JoinedSocks(host) \cup {c \in PumpSocks : PassedNow(c)}

\* What the step appended to the host's chat queue.
HostAppended == SubSeq(host'.chat, Len(host.chat) + 1, Len(host'.chat))
IsJoinMessage(m) ==
    /\ m.from = StrSystem /\ Len(m.text) >= Len(StrJoined)
    /\ SubSeq(m.text, Len(m.text) - Len(StrJoined) + 1, Len(m.text)) = StrJoined

\* C37 (step): a session becomes joined only in a pump() whose stream for it
\* holds a Hello that passes the check; a pump() appends to the chat queue
\* only join messages and chat that sessions that have passed the check
\* wrote, and hands Chat frames to send only for such sessions; and
\* sendChatFromHost() hands frames to send only for joined sessions.
C37_Step ==
    /\ JoinedSocks(host') \ JoinedSocks(host) # {} => PumpStep
    /\ PumpStep =>
          /\ JoinedSocks(host') \subseteq AuthSocks
          /\ \A k \in 1..Len(HostAppended) :
                \/ IsJoinMessage(HostAppended[k])
                \/ \E c \in AuthSocks : \E j \in 1..Len(Frames(c).packets) :
                       ChatOf(Frames(c).packets[j]) = <<HostAppended[k]>>
          /\ \A k \in 1..Len(last'.sends) :
                IsPacket(Drop(last'.sends[k].data, 4), MsgChat)
                    => last'.sends[k].conn \in AuthSocks
          /\ \A k \in 1..Len(last'.sends) :
                IsPacket(Drop(last'.sends[k].data, 4), MsgHelloAck)
                    => last'.sends[k].conn \in AuthSocks
    /\ last'.op = "sendChatFromHost" =>
          \A k \in 1..Len(last'.sends) : last'.sends[k].conn \in JoinedSocks(host)

\* C37: membership is authenticated. A session is joined only if the host
\* has processed from it a Hello with the host's lobby id and, on an
\* invite-only host, the host's invite code; no Chat from a session that
\* never passed this check is processed, and no relayed Chat and no host chat
\* is sent to one.
C37_Authenticated == [][C37_Step]_vars

\* On an invite-only lobby with a joined session and a session that wrote
\* chat without a handshake, the host's user has chatted: one frame was
\* handed to send, for the joined session.
C37_Witness ==
    /\ last.op = "sendChatFromHost" /\ host.privacy = PrivacyInviteOnly
    /\ Len(host.clients) = 2 /\ Cardinality(JoinedSocks(host)) = 1
    /\ Len(last.sends) = 1 /\ last.sends[1].conn \in JoinedSocks(host)
    /\ \E i \in 1..Len(host.clients) : ~host.clients[i].joined /\ host.clients[i].socket # 0
    /\ Len(host.chat) = 3


\* ------------------------------------------ C38: one handshake a session
\* What a peer writes: a handshake as "B", one as "A" (the name of the
\* host's player), and both in one piece.
RejoinChunks ==
    { HelloFrame(1, NameB, <<>>),
      HelloFrame(1, NameA, <<>>),
      HelloFrame(1, NameB, <<>>) \o HelloFrame(1, NameA, <<>>) }

\* An Open lobby started once and peers that connect and write handshakes,
\* more than one on the same connection.
RejoinNext ==
    \/ host = HostInit /\ Start(OpenArgs, 1, "default")
    \/ Pump
    \/ RawConnect
    \/ \E c \in Conns, bytes \in RejoinChunks : Read(c) /\ RawSend(c, bytes)
    \/ Tick

RejoinSpec == Init /\ [][RejoinNext]_vars

\* The join messages among what the step appended to the host's chat queue.
JoinsAppended == SelectSeq(HostAppended, IsJoinMessage)

\* C38: the handshake happens at most once per session. A pump() hands at
\* most one HelloAck to send for a session, and none for a session that was
\* joined already; it appends at most one join message for each session that
\* was not joined yet; and the name of a joined session stays as it is.
C38_OnceOnly ==
    [][PumpStep =>
          /\ \A c \in PumpSocks :
                /\ Cardinality(SentTo(last'.sends, c, MsgHelloAck))
                       <= (IF JoinedBefore(c) THEN 0 ELSE 1)
                /\ JoinedBefore(c) /\ c \in SessionSocks(host')
                       => SessionOf(host', c).name = SessionOf(host, c).name
          /\ Len(JoinsAppended) <= Cardinality(PumpSocks \ JoinedSocks(host))]_vars

\* The session that joined as "B" is now listed as "A": a later pump() read
\* a second Hello, sent a second HelloAck and queued "A joined" behind
\* "B joined".
C38_Renamed ==
    /\ last.op = "pump" /\ Len(host.clients) = 1
    /\ host.clients[1].joined /\ host.clients[1].name = NameA
    /\ Cardinality(SentTo(last.sends, host.clients[1].socket, MsgHelloAck)) = 1
    /\ host.chat = << ChatMessage(StartNow, StrSystem, StrLobbyStarted),
                      ChatMessage(StartNow, StrSystem, NameB \o StrJoined),
                      ChatMessage(StartNow + TickMs, StrSystem, NameA \o StrJoined) >>

\* A single pump() that read two Hellos in one recv has sent two HelloAcks to
\* the same session.
C38_TwoAcks ==
    /\ last.op = "pump" /\ Len(host.clients) = 1
    /\ Cardinality(SentTo(last.sends, host.clients[1].socket, MsgHelloAck)) = 2


\* ------------------------------------------------ C39: chat attribution
\* What a peer writes: a handshake as "B"; a chat under its own name, one
\* under "system" and one under the name of the host's player.
AttributionChunks ==
    { HelloFrame(1, NameB, <<>>),
      ChatFrame(7, NameB, TextHi),
      ChatFrame(7, StrSystem, TextHi),
      ChatFrame(7, NameA, TextHi) }

\* An Open lobby started once and peers that connect, join as "B" and chat.
AttributionNext ==
    \/ host = HostInit /\ Start(OpenArgs, 1, "default")
    \/ Pump
    \/ RawConnect
    \/ \E c \in Conns, bytes \in AttributionChunks : Read(c) /\ RawSend(c, bytes)

AttributionSpec == Init /\ [][AttributionNext]_vars

\* Some joined session of h is registered under this name.
Registered(h, name) ==
    \E i \in 1..Len(h.clients) : h.clients[i].joined /\ h.clients[i].name = name

\* C39: every message a pump() appends to the host's chat queue because of a
\* Chat frame, and every Chat frame it relays, carries as its from field the
\* name a joined session registered in its Hello: a joined client cannot
\* inject a message attributed to "system", to the host's name or to
\* another player.
C39_Attribution ==
    [][PumpStep =>
          /\ \A k \in 1..Len(HostAppended) :
                IsJoinMessage(HostAppended[k]) \/ Registered(host', HostAppended[k].from)
          /\ \A k \in 1..Len(last'.sends) :
                \A m \in {ChatOf(Drop(last'.sends[k].data, 4))} :
                    m # <<>> => Registered(host', m[1].from)]_vars

\* The session registered as "B" has written a chat under "system": the
\* pump() has queued it as ("system", "hi") and has relayed it with that
\* name to the two joined sessions.
C39_Forged ==
    /\ last.op = "pump" /\ Len(host.clients) = 2
    /\ \A i \in 1..2 : host.clients[i].joined /\ host.clients[i].name = NameB
    /\ host.chat[Len(host.chat)] = ChatMessage(7, StrSystem, TextHi)
    /\ Len(last.sends) = 2
    /\ \A k \in 1..2 : last.sends[k].data = ChatFrame(7, StrSystem, TextHi)

\* Chat under the session's own name is queued and relayed as written.
C39_Honest ==
    /\ last.op = "pump" /\ Len(host.clients) >= 1
    /\ host.clients[1].joined /\ host.clients[1].name = NameB
    /\ host.chat[Len(host.chat)] = ChatMessage(7, NameB, TextHi)
    /\ Len(last.sends) >= 1 /\ last.sends[1].data = ChatFrame(7, NameB, TextHi)


\* --------------------------------------------- C40: nothing lost on send
\* An Open lobby started once and a client that connects to it, the connect
\* completing at once or later, and chats, while both sides pump and the
\* clock advances.
DeliveryNext ==
    \/ host = HostInit /\ Start(OpenArgs, 1, "default")
    \/ Pump
    \/ \E outcome \in {"progress", "done"} :
           host.running /\ ~isConnected(client) /\ ConnectToHost(OwnInfo, NameB, <<>>, outcome)
    \/ PumpConnection
    \/ \E c \in Conns : Establish(c)
    \/ \E text \in {TextHi} : SendChat(text)
    \/ Tick

DeliverySpec == Init /\ [][DeliveryNext]_vars

\* The clock advances, a connect in progress completes, and the dialog's
\* loop calls pumpConnection() and pump() again and again: infinitely many
\* steps of each, which is more than weak fairness of them asks for.
DeliveryLiveSpec ==
    /\ DeliverySpec
    /\ WF_vars(Tick)
    /\ WF_vars(\E c \in Conns : Establish(c))
    /\ []<><<PumpConnection>>_vars
    /\ []<><<Pump>>_vars

\* connectToHost() has just returned true on connection c: the Hello has been
\* handed to _sendPacket.
HelloHanded(c) == last.op = "connectToHost" /\ last.ret /\ client.tcp = c

\* Connection c is open at both ends and has not been reset.
StaysOpen(c) ==
    /\ c \in Conns /\ conns[c].peerOpen /\ conns[c].serverOpen
    /\ ~conns[c].peerRst /\ ~conns[c].serverRst

\* C40: no frame is silently lost on send. As long as the connection stays
\* open and both sides keep pumping, a Hello handed to _sendPacket is
\* eventually dispatched by the host: the session on that connection joins.
C40_Delivered ==
    \A c \in 1..MaxConns : HelloHanded(c) ~> (c \in JoinedSocks(host) \/ ~StaysOpen(c))

\* The Hello of connection c is gone: the connection is established and
\* open, the client holds it, the host has accepted it or will, the session
\* has not joined, and neither the stream nor the session's buffer holds a
\* Hello or a part of a frame.
HelloLost(c) ==
    /\ StaysOpen(c) /\ conns[c].estab /\ isConnected(client) /\ client.tcp = c
    /\ c \notin JoinedSocks(host)
    /\ c \in SessionSocks(host) => SessionOf(host, c).rx = <<>>
    /\ CutFrames(conns[c].toServer).rest = <<>>
    /\ ~SomePacket(CutFrames(conns[c].toServer).packets, MsgHello)

\* Once the Hello is gone it stays gone: no step brings it back.
C40_NeverDelivered ==
    [][\A c \in 1..MaxConns : HelloLost(c) => HelloLost(c)']_vars

\* The connect completed after connectToHost() had returned: the host has
\* accepted the connection and pumped it, the session has not joined, and
\* nothing is on its way.
C40_Lost ==
    /\ last.op = "pump" /\ HelloLost(1) /\ 1 \in SessionSocks(host)
    /\ conns[1].toServer = <<>>

====
